---- MODULE Spec2Model ----
(***************************************************************************)
(* Authorization-policy evaluation engine of plumier                       *)
(* (packages/core/src/authorization.ts): route guard, parameter-write      *)
(* guard and response-read filter, over the shared policy registry         *)
(* config.authPolicies.                                                    *)
(*                                                                         *)
(* One request is in flight at a time.  Inside a request the authorizers   *)
(* of stacked route decorators are started together (Promise.all) and are  *)
(* resumed in any order: an evaluator is user code that may take any time. *)
(***************************************************************************)
EXTENDS Integers, Sequences, FiniteSets, TLC

\* Longest array a request parameter or a response body carries.
MaxArrayLen == 2

(***************************************************************************)
(* Values                                                                  *)
(***************************************************************************)
Undefined == [k |-> "undefined"]
Null == [k |-> "null"]
Scalar == [k |-> "value"]
Num(n) == [k |-> "number", n |-> n]
Obj(cls, fields) == [k |-> "object", cls |-> cls, p |-> fields]
Arr(items) == [k |-> "array", items |-> items]

\* value === undefined || value === null
IsNullish(value) == value = Undefined \/ value = Null

\* raw[prop.name]
Get(obj, name) == IF name \in DOMAIN obj.p THEN obj.p[name] ELSE Undefined

\* state.user: the identity the token carries, or undefined
UserOf(role) == [k |-> "user", role |-> role]
Users == {Undefined, UserOf("user"), UserOf("admin")}

RECURSIVE Join(_, _)
\* Array.prototype.join
Join(strs, sep) ==
    IF Len(strs) = 0 THEN ""
    ELSE IF Len(strs) = 1 THEN strs[1]
    ELSE strs[1] \o sep \o Join(Tail(strs), sep)

RECURSIVE ReverseSeq(_)
\* Array.prototype.reverse: the same elements, last first
ReverseSeq(s) == IF s = <<>> THEN <<>> ELSE Append(ReverseSeq(Tail(s)), Head(s))

RECURSIVE Flatten(_)
\* Array.prototype.flatten of the decorators' policy lists
Flatten(ss) == IF ss = <<>> THEN <<>> ELSE Head(ss) \o Flatten(Tail(ss))

RECURSIVE SelectSeqBy(_, _)
RECURSIVE SelectSeqByAnyAccess(_, _)
\* Variant of the filter that takes the authorize decorators of every access
SelectSeqByAnyAccess(decs, access) ==
    IF decs = <<>> THEN <<>>
    ELSE IF Head(decs).type = "plumier-meta:authorize"
         THEN <<Head(decs)>> \o SelectSeqByAnyAccess(Tail(decs), access)
         ELSE SelectSeqByAnyAccess(Tail(decs), access)

\* Array.prototype.filter for the access modifier of authorize decorators
SelectSeqBy(decs, access) ==
    IF decs = <<>> THEN <<>>
    ELSE IF Head(decs).type = "plumier-meta:authorize" /\ Head(decs).access = access
         THEN <<Head(decs)>> \o SelectSeqBy(Tail(decs), access)
         ELSE SelectSeqBy(Tail(decs), access)

(***************************************************************************)
(* Errors                                                                  *)
(***************************************************************************)
NoError == [type |-> "none", status |-> 0, message |-> ""]
HttpStatusError(status, message) ==
    [type |-> "HttpStatusError", status |-> status, message |-> message]
\* a plain Error: the request pipeline answers it as a server error
PlainError(message) == [type |-> "Error", status |-> 500, message |-> message]

Forbidden == 403
Unauthorized == 401

\* Variant of throwAuthError with the two statuses exchanged
ThrowAuthErrorWrongStatus(user, msg) ==
    IF user = Undefined THEN HttpStatusError(Unauthorized, msg)
    ELSE HttpStatusError(Forbidden, msg)

\* throwAuthError(ctx, msg): the error it throws
ThrowAuthError(user, msg) ==
    IF user = Undefined THEN HttpStatusError(Forbidden, msg)
    ELSE HttpStatusError(Unauthorized, msg)

(***************************************************************************)
(* Policies                                                                *)
(***************************************************************************)
Public == "Public"
Authenticated == "Authenticated"
AuthorizeReadonly == "plumier::readonly"
AuthorizeWriteonly == "plumier::writeonly"

PublicAuthPolicy == [class |-> "PublicAuthPolicy", name |-> Public, authorizer |-> "none"]
AuthenticatedAuthPolicy ==
    [class |-> "AuthenticatedAuthPolicy", name |-> Authenticated, authorizer |-> "none"]
ReadonlyAuthPolicy ==
    [class |-> "ReadonlyAuthPolicy", name |-> AuthorizeReadonly, authorizer |-> "none"]
WriteonlyAuthPolicy ==
    [class |-> "WriteonlyAuthPolicy", name |-> AuthorizeWriteonly, authorizer |-> "none"]

\* authPolicy().define(id, authorizer): a policy class, registered nowhere
Define(id, authorizer) == [class |-> "CustomAuthPolicy", name |-> id, authorizer |-> authorizer]

\* entityPolicy(entity).define(id, authorizer): a policy class bound to an
\* entity, registered nowhere
DefineEntity(entity, id, authorizer) ==
    [class |-> "EntityAuthPolicy", name |-> id, entity |-> entity, authorizer |-> authorizer]

\* other instanceof EntityAuthPolicy
IsEntityPolicy(policy) == policy.class = "EntityAuthPolicy"

\* Variant of conflict that compares the names only
PolicyConflictByName(policy, other) == policy.name = other.name

\* AuthPolicy.conflict(other)
PolicyConflict(policy, other) ==
    IF IsEntityPolicy(policy)
    THEN IF IsEntityPolicy(other)
         THEN policy.name = other.name /\ policy.entity = other.entity
         ELSE policy.name = other.name
    ELSE policy.name = other.name

\* AuthPolicy.friendlyName()
FriendlyName(policy) ==
    IF IsEntityPolicy(policy)
    THEN "EntityPolicy { name: \"" \o policy.name \o "\", entity: " \o policy.entity \o " }"
    ELSE "AuthPolicy { name: \"" \o policy.name \o "\" }"

(***************************************************************************)
(* Metadata: decorators, classes, routes                                   *)
(***************************************************************************)
NoType == [array |-> FALSE, name |-> "undefined"]
TypeOf(name) == [array |-> FALSE, name |-> name]
ArrayOf(name) == [array |-> TRUE, name |-> name]

AuthorizeDecorator(policies, access, location) ==
    [type |-> "plumier-meta:authorize", policies |-> policies,
     access |-> access, location |-> location, ref |-> NoType]
RelationDecorator ==
    [type |-> "plumier-meta:relation", policies |-> <<>>, access |-> "",
     location |-> "", ref |-> NoType]
\* @responseType(type)
ResponseTypeDecorator(type) ==
    [type |-> "plumier-meta:response-type", policies |-> <<>>, access |-> "",
     location |-> "", ref |-> type]

\* @entityProvider(entity, idParam); the model keeps a decorator's kind in `type`
EntityPolicyProviderDecorator(entity, idParam) ==
    [type |-> "plumier-meta:entity-policy-provider", policies |-> <<>>, access |-> "",
     location |-> "", ref |-> NoType, entity |-> entity, idParam |-> idParam]
\* @entity.primaryId()
PrimaryIdDecorator ==
    [type |-> "plumier-meta:entity-id", policies |-> <<>>, access |-> "",
     location |-> "", ref |-> NoType]

\* getGlobalDecorators(globalDecorator)
GetGlobalDecorators(globalDecorator) ==
    << AuthorizeDecorator(globalDecorator, "route", "Method") >>

\* Variant that merges the method's and the class's decorators
GetRouteAuthorizeDecoratorsMerged(info, globalDecorator) ==
    SelectSeqBy(info.action.decorators, "route")
        \o SelectSeqBy(info.controller.decorators, "route")

\* getRouteAuthorizeDecorators(info, globalDecorator)
GetRouteAuthorizeDecorators(info, globalDecorator) ==
    LET actionDecs == SelectSeqBy(info.action.decorators, "route")
        controllerDecs == SelectSeqBy(info.controller.decorators, "route")
    IN  IF Len(actionDecs) > 0 THEN actionDecs
        ELSE IF Len(controllerDecs) > 0 THEN controllerDecs
        ELSE IF globalDecorator = <<>> THEN <<>>
        ELSE GetGlobalDecorators(globalDecorator)

\* getErrorLocation(metadata) after fixContext(decorator, info)
RouteLocation(decorator, info) ==
    IF decorator.location = "Class" THEN "class " \o info.controller.name
    ELSE "method " \o info.controller.name \o "." \o info.action.name

(***************************************************************************)
(* The application under analysis                                          *)
(***************************************************************************)
\* const authPolicies = [createPolicy("user"), createPolicy("admin"), ...]
CustomPolicies ==
    { << Define("user", "roleEquals"), Define("admin", "roleEquals"),
         Define("HasUser", "throws") >>,
      << Define("admin", "roleEquals"), Define("HasUser", "throws"),
         Define("user", "roleEquals") >> }

\* The policies every application has
DefaultPolicies ==
    << PublicAuthPolicy, AuthenticatedAuthPolicy, ReadonlyAuthPolicy, WriteonlyAuthPolicy >>

\* JwtAuthFacility: the registry and the global default it configures.
\* No globalAuthorize option leaves the default, Authenticated.
Facility(authPolicies, globalAuthorize, enableAuthorization) ==
    [authPolicies |-> DefaultPolicies \o authPolicies,
     globalAuthorize |-> globalAuthorize,
     globalAuthorizations |->
        IF globalAuthorize = <<>> THEN <<Authenticated>> ELSE globalAuthorize,
     enableAuthorization |-> enableAuthorization]

GlobalAuthorizeOptions == { <<>>, <<Public>>, <<"admin", "user">> }

Configurations ==
    { Facility(p, <<>>, TRUE) : p \in CustomPolicies }
    \cup { Facility(<< Define("user", "roleEquals"), Define("admin", "roleEquals"),
                       Define("HasUser", "throwsValue") >>, <<>>, TRUE) }
    \cup { Facility(<< Define("user", "roleEquals"), Define("admin", "roleEquals"),
                       Define("HasUser", "throws") >>, g, e) :
              g \in GlobalAuthorizeOptions, e \in BOOLEAN }

\* Policy names route decorators use: registered ones and one that is not
RouteNames == {Public, "user", "admin", "HasUser"}
UnknownName == "lorem"

OnMethod(policies) == AuthorizeDecorator(policies, "route", "Method")
OnClass(policies) == AuthorizeDecorator(policies, "route", "Class")

\* Two different names
NamePairs(S) == { p \in S \X S : p[1] # p[2] }

\* @authorize.route(...) stacks on an action
ActionDecoratorLists ==
    { <<>>, << AuthorizeDecorator(<<"admin">>, "write", "Method") >> }
    \cup { << OnMethod(<<a>>) >> : a \in RouteNames \cup {UnknownName} }
    \cup { << OnMethod(<<p[1], p[2]>>) >> : p \in NamePairs(RouteNames) }
    \cup { << OnMethod(<<p[1]>>), OnMethod(<<p[2]>>) >> : p \in NamePairs(RouteNames) }
    \cup { << OnMethod(<<p[1], p[2]>>), OnMethod(<<c>>) >> :
              p \in NamePairs({"user", "admin", Public}), c \in RouteNames }

\* @authorize.route(...) stacks on a controller
ControllerDecoratorLists ==
    { << OnClass(<<"admin">>) >>, << OnClass(<<Public>>) >>, << OnClass(<<"HasUser">>) >>,
      << OnClass(<<"user">>), OnClass(<<"admin">>) >> }

\* An action under a decorated controller: undecorated, route-decorated, or
\* carrying only a decorator of another access
ActionUnderControllerLists ==
    { <<>>, << OnMethod(<<"user">>) >>, << AuthorizeDecorator(<<"admin">>, "write", "Method") >> }

\* isCustomClass(type)
IsCustomClass(type) == type.name \in {"Animal", "Tag", "Shop", "Product"}

Property(name, type, decorators) ==
    [kind |-> "Property", name |-> name, type |-> type, decorators |-> decorators]

OnProperty(policies, access) == AuthorizeDecorator(policies, access, "Parameter")

\* reflect(type).properties of the domain classes
\*   class Tag    { @authorize.readonly() id
\*                  @authorize.read("admin") @authorize.write("HasUser") label }
\*   class Animal { @authorize.write("admin") id
\*                  @authorize.write("user") @authorize.read("admin", "HasUser") tag: Tag
\*                  @entity.relation() @authorize.write("admin") owner: Tag
\*                  kids: Animal[] }
\*   class Shop   { @entity.primaryId() id
\*                  @authorize.read("ShopAdmin") @authorize.write("ShopAdmin") secret
\*                  products: Product[] }
\*   class Product { id
\*                  @authorize.read("ShopAdmin") basePrice
\*                  shop: Shop }
Reflect(type) ==
    IF type = "Shop"
    THEN << Property("id", TypeOf("Number"), << PrimaryIdDecorator >>),
            Property("secret", TypeOf("String"),
                     << OnProperty(<<"ShopAdmin">>, "read"),
                        OnProperty(<<"ShopAdmin">>, "write") >>),
            Property("products", ArrayOf("Product"), <<>>) >>
    ELSE IF type = "Product"
    THEN << Property("id", TypeOf("Number"), <<>>),
            Property("basePrice", TypeOf("Number"),
                     << OnProperty(<<"ShopAdmin">>, "read") >>),
            Property("shop", TypeOf("Shop"), <<>>) >>
    ELSE IF type = "Tag"
    THEN << Property("id", TypeOf("Number"), << OnProperty(<<AuthorizeReadonly>>, "write") >>),
            Property("label", TypeOf("String"),
                     << OnProperty(<<"admin">>, "read"), OnProperty(<<"HasUser">>, "write") >>) >>
    ELSE << Property("id", TypeOf("Number"), << OnProperty(<<"admin">>, "write") >>),
            Property("tag", TypeOf("Tag"),
                     << OnProperty(<<"user">>, "write"),
                        OnProperty(<<"admin", "HasUser">>, "read") >>),
            Property("owner", TypeOf("Tag"),
                     << RelationDecorator, OnProperty(<<"admin">>, "write") >>),
            Property("kids", ArrayOf("Animal"), <<>>) >>

\* Object literals of the two classes; a property left out is undefined
Tag(id, label) == Obj("Tag", [id |-> id, label |-> label])
Animal(id, tag, owner, kids) == Obj("Animal", [id |-> id, tag |-> tag, owner |-> owner, kids |-> kids])

Shop(id, secret) == Obj("Shop", [id |-> id, secret |-> secret])
Product(id, basePrice, shop) ==
    Obj("Product", [id |-> id, basePrice |-> basePrice, shop |-> shop])

\* Arrays of at most n elements of S
ArraysOf(S, n) == { Arr(s) : s \in UNION { [1..m -> S] : m \in 0..n } }

\* Request bodies bound to the parameter `data`
KidValues == { Animal(Scalar, Undefined, Undefined, Undefined),
               Animal(Undefined, Tag(Scalar, Undefined), Undefined, Undefined) }
DataValues ==
    { Undefined, Null }
    \cup { Animal(id, tag, owner, Undefined) :
              id \in {Undefined, Scalar},
              tag \in {Undefined, Tag(Scalar, Undefined), Tag(Scalar, Scalar)},
              owner \in {Undefined, Tag(Scalar, Undefined)} }
    \cup { Animal(id, Undefined, Undefined, kids) :
              id \in {Undefined, Scalar}, kids \in ArraysOf(KidValues, MaxArrayLen) }

\* ctx.parameters: the values bound to the parameters id and data
ParameterValues == { << id, data >> : id \in {Undefined, Scalar}, data \in DataValues }

\* class AnimalController { @route.post() save(@authorize.write("admin") id, data: Animal) }
ActionParameters ==
    << [kind |-> "Parameter", name |-> "id", type |-> TypeOf("Number"),
        decorators |-> << AuthorizeDecorator(<<"admin">>, "write", "Parameter") >>],
       [kind |-> "Parameter", name |-> "data", type |-> TypeOf("Animal"),
        decorators |-> <<>>] >>

Action(decorators, returnType) ==
    [name |-> "save", decorators |-> decorators, parameters |-> ActionParameters,
     returnType |-> returnType]

RouteInfo(controllerDecs, actionDecs) ==
    [controller |-> [name |-> "AnimalController", decorators |-> controllerDecs],
     action |-> Action(actionDecs, TypeOf("Tag"))]

Routes ==
    { RouteInfo(<<>>, a) : a \in ActionDecoratorLists }
    \cup { RouteInfo(c, a) : c \in ControllerDecoratorLists, a \in ActionUnderControllerLists }

HttpMethods == {"GET", "POST"}

(***************************************************************************)
(* Policy evaluation                                                       *)
(***************************************************************************)
\* The evaluators the applications under test define:
\*   x => x.user?.role === name                       ("roleEquals")
\*   i => { throw new Error("Error occur inside policy") }  ("throws")
\*   i => { throw "ERROR" }                           ("throwsValue")
CustomAuthorizer(authorizer, name, ctx) ==
    IF authorizer \in {"throws", "throwsValue"} THEN "throw"
    ELSE IF ctx.user # Undefined /\ ctx.user.role = name THEN "true" ELSE "false"

\* (i, id) => the entity `id` is the one the identity administers ("ownsId"):
\* user one administers shop 1, user two shop 2
OwnedId(user) == IF user.role = "user" THEN Num(1) ELSE Num(2)
EntityAuthorizer(authorizer, ctx, id) ==
    IF authorizer \in {"throws", "throwsValue"} THEN "throw"
    ELSE IF ctx.user # Undefined /\ id = OwnedId(ctx.user) THEN "true" ELSE "false"

\* What getEntity returns, or the Error it throws
Provider(err, entity, id) == [error |-> err, entity |-> entity, id |-> id]

\* metadata.actionParams.get(name): the value bound to the parameter `name`
ActionParamsGet(ctx, name) ==
    LET named == { i \in DOMAIN ctx.route.action.parameters :
                      /\ ctx.route.action.parameters[i].name = name
                      /\ i \in DOMAIN ctx.parameters }
    IN  IF named = {} THEN Undefined
        ELSE ctx.parameters[CHOOSE i \in named : \A j \in named : i <= j]

\* entityHelper.getIdProp(entity): the property flagged as the primary id
GetIdProp(entity) ==
    LET flagged == { i \in DOMAIN Reflect(entity) :
                        \E d \in DOMAIN Reflect(entity)[i].decorators :
                            Reflect(entity)[i].decorators[d].type = "plumier-meta:entity-id" }
    IN  IF flagged = {} THEN <<>>
        ELSE << Reflect(entity)[CHOOSE i \in flagged : \A j \in flagged : i <= j] >>

\* getEntity in route or write mode: from the action's provider declaration
GetEntityOfAction(ctx, decs, found) ==
    IF found = {}
    THEN Provider(PlainError("Action " \o ctx.route.controller.name \o "."
                             \o ctx.route.action.name
                             \o " doesn't have Entity Policy Provider information"),
                  "", Undefined)
    ELSE Provider(NoError, decs[CHOOSE d \in found : \A e \in found : d <= e].entity,
             ActionParamsGet(ctx, decs[CHOOSE d \in found : \A e \in found : d <= e].idParam))

\* Variant of the read mode that takes the property `id` whether flagged or not
GetEntityOfParentUnflagged(ctx, prop) ==
    Provider(NoError, ctx.parent,
             IF ctx.parentValue.k = "object" THEN Get(ctx.parentValue, "id")
             ELSE Undefined)

\* getEntity in read mode: from the class that owns the property
GetEntityOfParent(ctx, prop) ==
    IF prop = <<>>
    THEN Provider(PlainError("Entity " \o ctx.parent
                      \o " doesn't have primary ID information required for entity policy"),
                  "", Undefined)
    ELSE Provider(NoError, ctx.parent,
                  IF ctx.parentValue.k = "object" THEN Get(ctx.parentValue, prop[1].name)
                  ELSE Undefined)

\* Variant of getEntity that finds no entity where the code throws
GetEntityOrNone(ctx) ==
    IF ctx.access \in {"route", "write"}
    THEN IF \E d \in DOMAIN ctx.route.action.decorators :
               ctx.route.action.decorators[d].type = "plumier-meta:entity-policy-provider"
         THEN GetEntityOfAction(ctx, ctx.route.action.decorators,
                  { d \in DOMAIN ctx.route.action.decorators :
                       ctx.route.action.decorators[d].type = "plumier-meta:entity-policy-provider" })
         ELSE Provider(NoError, "", Undefined)
    ELSE IF GetIdProp(ctx.parent) = <<>> THEN Provider(NoError, "", Undefined)
    ELSE GetEntityOfParent(ctx, GetIdProp(ctx.parent))

\* EntityAuthPolicy.getEntity(ctx)
GetEntity(ctx) ==
    IF ctx.access \in {"route", "write"}
    THEN GetEntityOfAction(ctx, ctx.route.action.decorators,
             { d \in DOMAIN ctx.route.action.decorators :
                  ctx.route.action.decorators[d].type = "plumier-meta:entity-policy-provider" })
    ELSE GetEntityOfParent(ctx, GetIdProp(ctx.parent))

\* An entity policy is asked for its own name: equals calls getEntity
Resolves(policy, id) == IsEntityPolicy(policy) /\ id = policy.name

\* Variant of equals that compares the names only
PolicyEqualsByName(policy, id, ctx) == id = policy.name

\* AuthPolicy.equals(id, ctx), where getEntity does not throw
PolicyEquals(policy, id, ctx) ==
    IF Resolves(policy, id) THEN policy.entity = GetEntity(ctx).entity
    ELSE id = policy.name

\* Variant of authorize in which Authenticated allows a request without identity
PolicyAuthorizeAnonymousAuthenticated(policy, ctx) ==
    CASE policy.class = "PublicAuthPolicy" -> "true"
      [] policy.class = "AuthenticatedAuthPolicy" -> "true"
      [] policy.class = "ReadonlyAuthPolicy" -> "false"
      [] policy.class = "WriteonlyAuthPolicy" -> "false"
      [] policy.class = "EntityAuthPolicy" ->
            EntityAuthorizer(policy.authorizer, ctx, GetEntity(ctx).id)
      [] OTHER -> CustomAuthorizer(policy.authorizer, policy.name, ctx)

\* Variant in which the readonly sentinel allows
PolicyAuthorizeReadonlyAllows(policy, ctx) ==
    CASE policy.class = "PublicAuthPolicy" -> "true"
      [] policy.class = "AuthenticatedAuthPolicy" ->
            IF ctx.user # Undefined THEN "true" ELSE "false"
      [] policy.class = "ReadonlyAuthPolicy" -> "true"
      [] policy.class = "WriteonlyAuthPolicy" -> "false"
      [] policy.class = "EntityAuthPolicy" ->
            EntityAuthorizer(policy.authorizer, ctx, GetEntity(ctx).id)
      [] OTHER -> CustomAuthorizer(policy.authorizer, policy.name, ctx)

\* AuthPolicy.authorize(ctx): "true", "false", or "throw" when the evaluator
\* throws or rejects (CustomAuthPolicy.authorize rethrows it wrapped)
PolicyAuthorize(policy, ctx) ==
    CASE policy.class = "PublicAuthPolicy" -> "true"
      [] policy.class = "AuthenticatedAuthPolicy" ->
            IF ctx.user # Undefined THEN "true" ELSE "false"
      [] policy.class = "ReadonlyAuthPolicy" -> "false"
      [] policy.class = "WriteonlyAuthPolicy" -> "false"
      [] policy.class = "EntityAuthPolicy" ->
            EntityAuthorizer(policy.authorizer, ctx, GetEntity(ctx).id)
      [] OTHER -> CustomAuthorizer(policy.authorizer, policy.name, ctx)

\* e.stack of the error the evaluator threw, up to its first line
EvaluatorStack == "Error: Error occur inside policy"

\* e instanceof Error ? e.stack : e, for what the evaluator threw
ErrorContent(authorizer) == IF authorizer = "throwsValue" THEN "ERROR" ELSE EvaluatorStack

\* Variant that answers a failed evaluator as a denial
PolicyErrorAsDenial(policy, ctx) ==
    ThrowAuthError(ctx.user, "Unauthorized")

\* The Error CustomAuthPolicy.authorize throws for a failed evaluator
PolicyError(policy, ctx) ==
    PlainError("Error occur inside authorization policy " \o policy.name
               \o (IF IsEntityPolicy(policy) THEN " for entity " \o policy.entity ELSE "")
               \o " on " \o ctx.location \o " \n " \o ErrorContent(policy.authorizer))

(***************************************************************************)
(* PolicyAuthorizer                                                        *)
(***************************************************************************)
\* Where the loops of PolicyAuthorizer.authorize stand: at the evaluator of
\* `policy` (found), past the last policy, or at the Error equals threw; with
\* the comparisons of entity policies made on the way
Match(found, i, k, policy, err, resolved) ==
    [found |-> found, i |-> i, k |-> k, policy |-> policy, error |-> err,
     resolved |-> resolved]

NoMatch == Match(FALSE, 0, 0, PublicAuthPolicy, NoError, <<>>)

\* An entry of the record of invocations: equals of an entity policy asked
\* for its own name, with what getEntity answered
Resolution(policy, ctx, provider) ==
    [op |-> "equals", policy |-> policy.name, bound |-> policy.entity,
     access |-> ctx.access, value |-> ctx.value, location |-> ctx.location,
     owner |-> ctx.parent, parentValue |-> ctx.parentValue,
     entity |-> provider.entity, id |-> provider.id, error |-> provider.error]

\* The comparison made before the rest of the loops
After(resolution, match) == [match EXCEPT !.resolved = << resolution >> \o @]

RECURSIVE NextMatch(_, _, _, _, _, _)
\* The two loops of PolicyAuthorizer.authorize from the key at position k of
\* the policy instance `policy` (read from index i of the array), up to the
\* next key the policy equals.  The array iterator is live: index i + 1 is
\* read from the array as it is now.
NextMatch(policies, keys, policy, i, k, ctx) ==
    IF k <= Len(keys)
    THEN IF Resolves(policy, keys[k])
         THEN IF GetEntity(ctx).error # NoError
              THEN Match(FALSE, i, k, policy, GetEntity(ctx).error,
                         << Resolution(policy, ctx, GetEntity(ctx)) >>)
              ELSE IF PolicyEquals(policy, keys[k], ctx)
              THEN Match(TRUE, i, k, policy, NoError,
                         << Resolution(policy, ctx, GetEntity(ctx)) >>)
              ELSE After(Resolution(policy, ctx, GetEntity(ctx)),
                         NextMatch(policies, keys, policy, i, k + 1, ctx))
         ELSE IF PolicyEquals(policy, keys[k], ctx)
         THEN Match(TRUE, i, k, policy, NoError, <<>>)
         ELSE NextMatch(policies, keys, policy, i, k + 1, ctx)
    ELSE IF i < Len(policies)
         THEN NextMatch(policies, keys, policies[i + 1], i + 1, 1, ctx)
         ELSE NoMatch

\* The first match of a fresh iteration over the array
FirstMatch(policies, keys, ctx) ==
    NextMatch(policies, keys, PublicAuthPolicy, 0, Len(keys) + 1, ctx)

\* An entry of the record of evaluator invocations
Call(policy, ctx) ==
    [op |-> "authorize", policy |-> policy.name,
     bound |-> IF IsEntityPolicy(policy) THEN policy.entity ELSE "",
     access |-> ctx.access, value |-> ctx.value, location |-> ctx.location,
     owner |-> ctx.parent, parentValue |-> ctx.parentValue,
     entity |-> IF IsEntityPolicy(policy) THEN GetEntity(ctx).entity ELSE "",
     id |-> IF IsEntityPolicy(policy) THEN GetEntity(ctx).id ELSE Undefined,
     error |-> NoError]

\* What executeAuthorizer resolves to: the verdict ("true", "false", or
\* "error" with the error thrown), the evaluator invocations, and the array
Verdict(res, err, policies, log) ==
    [res |-> res, error |-> err, policies |-> policies, log |-> log]

RECURSIVE AuthorizeFrom(_, _, _, _, _)

\* The body of the loops after `await authPolicy.authorize(ctx)` returned
AfterAuthorize(policies, keys, match, ctx, log, authorize) ==
    IF authorize = "throw"
    THEN Verdict("error", PolicyError(match.policy, ctx), policies, log)
    ELSE IF authorize = "true" THEN Verdict("true", NoError, policies, log)
    ELSE AuthorizeFrom(policies, keys,
             NextMatch(policies, keys, match.policy, match.i, match.k + 1, ctx), ctx, log)

\* PolicyAuthorizer.authorize run without interruption from a match on
AuthorizeFrom(policies, keys, match, ctx, log) ==
    IF match.error # NoError
    THEN Verdict("error", match.error, policies, log \o match.resolved)
    ELSE IF ~match.found THEN Verdict("false", NoError, policies, log \o match.resolved)
    ELSE AfterAuthorize(policies, keys, match, ctx,
                        Append(log \o match.resolved, Call(match.policy, ctx)),
                        PolicyAuthorize(match.policy, ctx))

\* PolicyAuthorizer.authorize over the array reverse() returned
AuthorizeReversed(reversed, keys, ctx, log) ==
    AuthorizeFrom(reversed, keys, FirstMatch(reversed, keys, ctx), ctx, log)

\* executeAuthorizer(decorators, info) awaited with nothing else running
ExecuteAuthorizer(policies, keys, ctx, log) ==
    AuthorizeReversed(ReverseSeq(policies), keys, ctx, log)

(***************************************************************************)
(* State                                                                   *)
(***************************************************************************)
VARIABLES
    globalPolicies, \* the module's array the policy builders push to
    config,        \* ctx.config except authPolicies: fixed at startup
    authPolicies,  \* ctx.config.authPolicies, the array every authorizer shares
    pc,            \* where the request in flight is
    ctx,           \* ActionContext of the request: user, route, method, parameters
    tasks,         \* the authorizers checkUserAccessToRoute started
    error,         \* what the middleware threw, or NoError
    calls,         \* evaluator invocations of the request, in order
    result,        \* the ActionResult invocation.proceed() returned
    response       \* the ActionResult the middleware returns

vars == << globalPolicies, config, authPolicies, pc, ctx, tasks, error, calls, result, response >>

\* info.metadata and info.parentValue: the route, the bound parameters, the
\* class that owns the current member, the object that holds the value
Metadata(route, parameters, parent, parentValue) ==
    [route |-> route, parameters |-> parameters, parent |-> parent,
     parentValue |-> parentValue]

\* createAuthContext(ctx, access) and the current metadata the evaluator sees
AuthContext(user, access, value, location, metadata) ==
    [user |-> user, access |-> access, value |-> value, location |-> location,
     route |-> metadata.route, parameters |-> metadata.parameters,
     parent |-> metadata.parent, parentValue |-> metadata.parentValue]

ActionResult(status, body) == [status |-> status, body |-> body]
NoResult == ActionResult(0, Undefined)

NoContext == [user |-> Undefined, route |-> RouteInfo(<<>>, <<>>), method |-> "GET",
              parameters |-> <<>>]

\* The metadata of a context that is of no request
NoMetadata == Metadata(NoContext.route, <<>>, "", Undefined)

Init ==
    /\ config \in Configurations
    /\ authPolicies = config.authPolicies
    /\ globalPolicies = <<>>
    /\ pc = "idle"
    /\ ctx = NoContext
    /\ tasks = <<>>
    /\ error = NoError
    /\ calls = <<>>
    /\ result = NoResult
    /\ response = NoResult

(***************************************************************************)
(* Route guard                                                             *)
(***************************************************************************)
\* The state of one PolicyAuthorizer.authorize call: suspended at the
\* evaluator of match.policy ("await") or returned ("true", "false", "error")
Task(keys, info, match) ==
    [keys |-> keys, info |-> info, match |-> match,
     status |-> IF match.error # NoError THEN "error"
                ELSE IF match.found THEN "await" ELSE "false",
     error |-> match.error]

\* fixContext(x, info)
FixContext(decorator, user, route, parameters) ==
    AuthContext(user, "route", Undefined, RouteLocation(decorator, route),
                Metadata(route, parameters, route.controller.name, Undefined))

RECURSIVE StartAuthorizers(_, _, _, _, _)

\* One executeAuthorizer call of the map, over the array reverse() returned,
\* up to its first await; then the calls for the decorators after it
StartNext(decorators, reversed, user, route, parameters, info) ==
    [tasks |-> << Task(Head(decorators).policies, info,
                       FirstMatch(reversed, Head(decorators).policies, info)) >>
               \o StartAuthorizers(Tail(decorators), reversed, user, route, parameters).tasks,
     policies |-> StartAuthorizers(Tail(decorators), reversed, user, route, parameters).policies]

\* decorators.map(x => executeAuthorizer(x, fixContext(x, info))): each call
\* reverses the shared array and runs up to its first await
StartAuthorizers(decorators, policies, user, route, parameters) ==
    IF decorators = <<>> THEN [tasks |-> <<>>, policies |-> policies]
    ELSE StartNext(decorators, ReverseSeq(policies), user, route, parameters,
                   FixContext(Head(decorators), user, route, parameters))

\* The name comparisons of entity policies the authorizers made before their
\* first await, in the order the authorizers were started
RECURSIVE ResolvedBy(_)
ResolvedBy(started) ==
    IF started = <<>> THEN <<>>
    ELSE Head(started).match.resolved \o ResolvedBy(Tail(started))

\* AuthorizerMiddleware.execute up to the await of Promise.all in
\* checkUserAccessToRoute (or to invocation.proceed() with authorization off).
\* `values` are the bound parameters where the route guard reads them (an
\* entity policy does); they are <<>> where the parameter guard is the first
\* to read them, and are drawn then.
BeginRequest(user, route, method, values) ==
    /\ pc = "idle"
    /\ ctx' = [user |-> user, route |-> route, method |-> method, parameters |-> values]
    /\ error' = NoError
    /\ IF config.enableAuthorization
       THEN LET started == StartAuthorizers(
                    GetRouteAuthorizeDecorators(route, config.globalAuthorizations),
                    authPolicies, user, route, values)
            IN  /\ tasks' = started.tasks
                /\ calls' = ResolvedBy(started.tasks)
                /\ authPolicies' = started.policies
                /\ pc' = "route"
       ELSE /\ tasks' = <<>>
            /\ calls' = <<>>
            /\ pc' = "handler"
            /\ UNCHANGED authPolicies
    /\ result' = NoResult
    /\ response' = NoResult
    /\ UNCHANGED << globalPolicies, config >>

\* The evaluator a suspended authorizer awaits settles; the authorizer runs on
\* to its next await or to its return
ResumeAuthorizer(t) ==
    /\ t \in DOMAIN tasks
    /\ tasks[t].status = "await"
    /\ LET task == tasks[t]
           authorize == PolicyAuthorize(task.match.policy, task.info)
           next == NextMatch(authPolicies, task.keys, task.match.policy,
                             task.match.i, task.match.k + 1, task.info)
       IN  /\ calls' = Append(calls, Call(task.match.policy, task.info))
                           \o (IF authorize = "false" THEN next.resolved ELSE <<>>)
           /\ tasks' = [tasks EXCEPT ![t] =
                 IF authorize = "throw"
                 THEN [task EXCEPT !.status = "error",
                                   !.error = PolicyError(task.match.policy, task.info)]
                 ELSE IF authorize = "true" THEN [task EXCEPT !.status = "true"]
                 ELSE Task(task.keys, task.info, next)]
    /\ UNCHANGED << globalPolicies, config, authPolicies, pc, ctx, error, result, response >>

\* Variant that passes only if every authorizer allows (conditions.every)
CheckUserAccessToRouteEvery ==
    /\ pc = "route"
    /\ \/ \E t \in DOMAIN tasks : tasks[t].status = "error"
       \/ \A t \in DOMAIN tasks : tasks[t].status \in {"true", "false"}
    /\ IF \E t \in DOMAIN tasks : tasks[t].status = "error"
       THEN /\ \E t \in DOMAIN tasks :
                  /\ tasks[t].status = "error"
                  /\ error' = tasks[t].error
            /\ pc' = "failed"
       ELSE IF \A t \in DOMAIN tasks : tasks[t].status = "true"
       THEN /\ pc' = "parameters"
            /\ UNCHANGED error
       ELSE /\ error' = ThrowAuthError(ctx.user, IF ctx.user = Undefined THEN "Forbidden" ELSE "Unauthorized")
            /\ pc' = "failed"
    /\ UNCHANGED << globalPolicies, config, authPolicies, ctx, tasks, calls, result, response >>

\* Promise.all settles: rejected with the first rejection, or fulfilled when
\* every authorizer returned; then the rest of checkUserAccessToRoute
CheckUserAccessToRoute ==
    /\ pc = "route"
    /\ \/ \E t \in DOMAIN tasks : tasks[t].status = "error"
       \/ \A t \in DOMAIN tasks : tasks[t].status \in {"true", "false"}
    /\ IF \E t \in DOMAIN tasks : tasks[t].status = "error"
       THEN /\ \E t \in DOMAIN tasks :
                  /\ tasks[t].status = "error"
                  /\ error' = tasks[t].error
            /\ pc' = "failed"
       ELSE IF \E t \in DOMAIN tasks : tasks[t].status = "true"
       THEN /\ pc' = "parameters"
            /\ UNCHANGED error
       ELSE /\ error' = ThrowAuthError(ctx.user, IF ctx.user = Undefined THEN "Forbidden" ELSE "Unauthorized")
            /\ pc' = "failed"
    /\ UNCHANGED << globalPolicies, config, authPolicies, ctx, tasks, calls, result, response >>

(***************************************************************************)
(* Parameter-write guard                                                   *)
(***************************************************************************)
\* What a walk returns: the unauthorized paths, the error that aborted it
\* (or NoError), the array and the invocation record as the walk left them
Walked(paths, err, policies, log) ==
    [paths |-> paths, error |-> err, policies |-> policies, log |-> log]

\* getErrorLocation(metadata) after createContext(ctx, value, meta)
MemberLocation(meta, parent) ==
    (IF meta.kind = "Parameter" THEN "parameter " ELSE "property ")
        \o parent \o "." \o meta.name

IsRelation(meta) ==
    \E d \in DOMAIN meta.decorators : meta.decorators[d].type = "plumier-meta:relation"

RECURSIVE PropertyValues(_, _)
\* classMeta.properties.map(x => value[x.name])
PropertyValues(properties, value) ==
    IF properties = <<>> THEN <<>>
    ELSE << Get(value, Head(properties).name) >> \o PropertyValues(Tail(properties), value)

\* The paths of two walks, the second continuing the first
Merge(first, rest) ==
    Walked(first.paths \o rest.paths, rest.error, rest.policies, rest.log)

\* decorators.map(x => x.policies).flatten()
PoliciesOf(decorators) == Flatten([d \in DOMAIN decorators |-> decorators[d].policies])

\* createContext(ctx, value, meta)
CreateContext(c, value, meta) ==
    AuthContext(c.user, "write", value, MemberLocation(meta, c.parent),
                Metadata(c.route, c.parameters, c.parent, c.parentValue))

RECURSIVE CheckParameter(_, _, _, _, _), CheckParameters(_, _, _, _, _, _),
          CheckElements(_, _, _, _, _, _)

\* Variant that records the path of a denied value and walks into it as well
AfterWriteCheckDescends(meta, value, c, allowed) ==
    IF allowed.res = "error"
    THEN Walked(<<>>, allowed.error, allowed.policies, allowed.log)
    ELSE IF IsRelation(meta)
    THEN Walked(IF allowed.res = "false" THEN << Join(c.path, ".") >> ELSE <<>>,
                NoError, allowed.policies, allowed.log)
    ELSE IF meta.type.array
    THEN Merge(Walked(IF allowed.res = "false" THEN << Join(c.path, ".") >> ELSE <<>>,
                      NoError, allowed.policies, allowed.log),
               CheckElements([meta EXCEPT !.type = TypeOf(meta.type.name)], value.items, 1,
                             c, allowed.policies, allowed.log))
    ELSE IF IsCustomClass(meta.type)
    THEN Merge(Walked(IF allowed.res = "false" THEN << Join(c.path, ".") >> ELSE <<>>,
                      NoError, allowed.policies, allowed.log),
               CheckParameters(Reflect(meta.type.name),
                   PropertyValues(Reflect(meta.type.name), value), 1,
                   [c EXCEPT !.parent = meta.type.name, !.parentValue = value], allowed.policies, allowed.log))
    ELSE Walked(IF allowed.res = "false" THEN << Join(c.path, ".") >> ELSE <<>>,
                NoError, allowed.policies, allowed.log)

\* checkParameter after the write decorators were evaluated to `allowed`
AfterWriteCheck(meta, value, c, allowed) ==
    IF allowed.res = "error"
    THEN Walked(<<>>, allowed.error, allowed.policies, allowed.log)
    ELSE IF allowed.res = "false"
    THEN Walked(<< Join(c.path, ".") >>, NoError, allowed.policies, allowed.log)
    ELSE IF IsRelation(meta) THEN Walked(<<>>, NoError, allowed.policies, allowed.log)
    ELSE IF meta.type.array
    THEN CheckElements([meta EXCEPT !.type = TypeOf(meta.type.name)], value.items, 1,
                       c, allowed.policies, allowed.log)
    ELSE IF IsCustomClass(meta.type)
    THEN CheckParameters(Reflect(meta.type.name),
             PropertyValues(Reflect(meta.type.name), value), 1,
             [c EXCEPT !.parent = meta.type.name, !.parentValue = value], allowed.policies, allowed.log)
    ELSE Walked(<<>>, NoError, allowed.policies, allowed.log)

\* Variant that lets every write through
WriteCheckAllows(decorators, info, policies, log) ==
    Verdict("true", NoError, policies, log)

\* checkParameter's evaluation of the write decorators it found
WriteCheck(decorators, info, policies, log) ==
    IF Len(decorators) > 0
    THEN ExecuteAuthorizer(policies, PoliciesOf(decorators), info, log)
    ELSE Verdict("true", NoError, policies, log)

\* Variant that tests for an absent value after evaluating the write policies
CheckParameterLateNullCheck(meta, value, c, policies, log) ==
    IF c.method = "GET" THEN Walked(<<>>, NoError, policies, log)
    ELSE IF IsNullish(value)
    THEN Walked(<<>>, NoError,
             WriteCheck(SelectSeqBy(meta.decorators, "write"),
                        CreateContext(c, value, meta),
                        policies, log).policies,
             WriteCheck(SelectSeqBy(meta.decorators, "write"),
                        CreateContext(c, value, meta),
                        policies, log).log)
    ELSE AfterWriteCheck(meta, value, c,
             WriteCheck(SelectSeqBy(meta.decorators, "write"),
                        CreateContext(c, value, meta),
                        policies, log))

\* Variant that checks the parameters of a GET as those of any method
CheckParameterOnEveryMethod(meta, value, c, policies, log) ==
    IF IsNullish(value) THEN Walked(<<>>, NoError, policies, log)
    ELSE AfterWriteCheck(meta, value, c,
             WriteCheck(SelectSeqBy(meta.decorators, "write"),
                        CreateContext(c, value, meta),
                        policies, log))

\* Variant that skips a relation property before its write decorators
CheckParameterRelationFirst(meta, value, c, policies, log) ==
    IF IsNullish(value) THEN Walked(<<>>, NoError, policies, log)
    ELSE IF c.method = "GET" THEN Walked(<<>>, NoError, policies, log)
    ELSE IF IsRelation(meta) THEN Walked(<<>>, NoError, policies, log)
    ELSE AfterWriteCheck(meta, value, c,
             WriteCheck(SelectSeqBy(meta.decorators, "write"),
                        CreateContext(c, value, meta),
                        policies, log))

\* checkParameter(meta, value, ctx): c is the ParamCheckContext (path, parent,
\* user, method)
CheckParameter(meta, value, c, policies, log) ==
    IF IsNullish(value) THEN Walked(<<>>, NoError, policies, log)
    ELSE IF c.method = "GET" THEN Walked(<<>>, NoError, policies, log)
    ELSE AfterWriteCheck(meta, value, c,
             WriteCheck(SelectSeqBy(meta.decorators, "write"),
                        CreateContext(c, value, meta),
                        policies, log))

\* The elements after element i, unless the walk of element i threw
ElementsAfter(meta, items, i, c, first) ==
    IF first.error # NoError THEN first
    ELSE Merge(first, CheckElements(meta, items, i + 1, c, first.policies, first.log))

\* checkParameter's loop over the elements of an array value, from element i
CheckElements(meta, items, i, c, policies, log) ==
    IF i > Len(items) THEN Walked(<<>>, NoError, policies, log)
    ELSE ElementsAfter(meta, items, i, c,
             CheckParameter(meta, items[i],
                 [c EXCEPT !.path = Append(c.path, ToString(i - 1))], policies, log))

\* Variant that stops the walk at the first parameter with an issue
ParametersAfterFirstIssue(meta, value, i, c, issues) ==
    IF issues.error # NoError \/ issues.paths # <<>> THEN issues
    ELSE Merge(issues, CheckParameters(meta, value, i + 1, c, issues.policies, issues.log))

\* The parameters after parameter i, unless the walk of parameter i threw
ParametersAfter(meta, value, i, c, issues) ==
    IF issues.error # NoError THEN issues
    ELSE Merge(issues, CheckParameters(meta, value, i + 1, c, issues.policies, issues.log))

\* checkParameters(meta, value, ctx), from the i-th parameter or property
CheckParameters(meta, value, i, c, policies, log) ==
    IF i > Len(meta) THEN Walked(<<>>, NoError, policies, log)
    ELSE ParametersAfter(meta, value, i, c,
             CheckParameter(meta[i], value[i],
                 [c EXCEPT !.path = Append(c.path, meta[i].name)], policies, log))

\* The message of the error checkUserAccessToParameters throws
ParameterMessage(unauthorizedPaths) ==
    "Unauthorized to populate parameter paths (" \o Join(unauthorizedPaths, ", ") \o ")"

\* Variant of checkAuthorize that does not await the parameter check
ParametersCheckedUnawaited(values, walk) ==
    /\ ctx' = [ctx EXCEPT !.parameters = values]
    /\ authPolicies' = walk.policies
    /\ calls' = walk.log
    /\ pc' = "handler"
    /\ IF walk.error # NoError THEN error' = walk.error
       ELSE IF Len(walk.paths) > 0
       THEN error' = ThrowAuthError(ctx.user, ParameterMessage(walk.paths))
       ELSE error' = NoError

\* checkUserAccessToParameters after the walk returned
ParametersChecked(values, walk) ==
    /\ ctx' = [ctx EXCEPT !.parameters = values]
    /\ authPolicies' = walk.policies
    /\ calls' = walk.log
    /\ IF walk.error # NoError
       THEN error' = walk.error /\ pc' = "failed"
       ELSE IF Len(walk.paths) > 0
       THEN /\ error' = ThrowAuthError(ctx.user, ParameterMessage(walk.paths))
            /\ pc' = "failed"
       ELSE error' = NoError /\ pc' = "handler"

\* checkUserAccessToParameters(route.action.parameters, parameters, info) for
\* the values the request binds
CheckUserAccessToParameters(values) ==
    /\ pc = "parameters"
    /\ ctx.parameters \in {<<>>, values}
    /\ ParametersChecked(values,
           CheckParameters(ctx.route.action.parameters, values, 1,
               [path |-> <<>>, parent |-> ctx.route.controller.name,
                user |-> ctx.user, method |-> ctx.method, route |-> ctx.route,
                parameters |-> values, parentValue |-> Undefined],
               authPolicies, calls))
    /\ UNCHANGED << globalPolicies, config, tasks, result, response >>

(***************************************************************************)
(* Response-read filter                                                    *)
(***************************************************************************)
ValueNode == [kind |-> "Value"]
ArrayNode(child) == [kind |-> "Array", child |-> child]
ClassNode(properties) == [kind |-> "Class", properties |-> properties]

\* createPropertyNode(prop, info): the authorizer is `true` (always) when the
\* property has no read policy, else a PolicyAuthorizer over the policies
CreatePropertyNode(prop) ==
    LET decorators == SelectSeqBy(prop.decorators, "read")
        policies == Flatten([d \in DOMAIN decorators |-> decorators[d].policies])
    IN  [name |-> prop.name, always |-> Len(policies) = 0, keys |-> policies]

RECURSIVE CompileType(_, _), CompileProperties(_, _, _)

\* Variant that passes the value of a repeated type through
CompileTypeCutAsValue(type, parentTypes) ==
    IF type.array THEN ArrayNode(CompileType(TypeOf(type.name), parentTypes))
    ELSE IF IsCustomClass(type)
    THEN IF \E x \in DOMAIN parentTypes : parentTypes[x] = type.name
         THEN ValueNode
         ELSE ClassNode(CompileProperties(Reflect(type.name), type.name, parentTypes))
    ELSE ValueNode

\* compileType(type, ctx, parentTypes)
CompileType(type, parentTypes) ==
    IF type.array THEN ArrayNode(CompileType(TypeOf(type.name), parentTypes))
    ELSE IF IsCustomClass(type)
    THEN IF \E x \in DOMAIN parentTypes : parentTypes[x] = type.name
         THEN ClassNode(<<>>)
         ELSE ClassNode(CompileProperties(Reflect(type.name), type.name, parentTypes))
    ELSE ValueNode

\* compileType's loop over meta.properties
CompileProperties(properties, type, parentTypes) ==
    IF properties = <<>> THEN <<>>
    ELSE LET prop == Head(properties)
             propNode == CreatePropertyNode(prop)
         IN  << [name |-> propNode.name, always |-> propNode.always, keys |-> propNode.keys,
                 meta |-> prop, parent |-> type,
                 type |-> CompileType(prop.type, Append(parentTypes, type))] >>
             \o CompileProperties(Tail(properties), type, parentTypes)

\* What a filter returns: the filtered value, the error that aborted it,
\* the array and the invocation record as it left them
Filtered(value, err, policies, log) ==
    [value |-> value, error |-> err, policies |-> policies, log |-> log]

\* raw.constructor.name
ConstructorName(raw) ==
    IF raw.k = "object" THEN raw.cls ELSE IF raw.k = "array" THEN "Array" ELSE "String"

\* An object none of whose properties is set
EmptyFields(raw) == [n \in DOMAIN raw.p |-> Undefined]

\* Object.keys(result).length === 0
HasNoKeys(fields) == \A n \in DOMAIN fields : fields[n] = Undefined

RECURSIVE FilterType(_, _, _, _, _), FilterItems(_, _, _, _, _, _),
          FilterProperties(_, _, _, _, _, _, _)

\* result.length === 0 ? undefined : result
ArrayResult(items) ==
    IF items.error # NoError THEN items
    ELSE Filtered(IF Len(items.value) = 0 THEN Undefined ELSE Arr(items.value),
                  NoError, items.policies, items.log)

\* Object.keys(result).length === 0 && ... ? undefined : result
ClassResult(raw, props) ==
    IF props.error # NoError THEN props
    ELSE Filtered(IF HasNoKeys(props.value) THEN Undefined ELSE Obj(raw.cls, props.value),
                  NoError, props.policies, props.log)

\* filterType(raw, node, ctx): c carries the user and the route's names
FilterType(raw, node, c, policies, log) ==
    IF node.kind = "Array"
    THEN IF raw.k # "array"
         THEN Filtered(Undefined,
                  PlainError("Action " \o c.controller \o "." \o c.action
                             \o " expecting return value of type Array but got "
                             \o ConstructorName(raw)),
                  policies, log)
         ELSE ArrayResult(FilterItems(raw.items, 1, node.child, c, policies, log))
    ELSE IF node.kind = "Class"
    THEN ClassResult(raw, FilterProperties(raw, node.properties, 1, EmptyFields(raw),
                                           c, policies, log))
    ELSE Filtered(raw, NoError, policies, log)

\* if (val !== undefined) result.push(val), before the items after it
Pushed(val, rest) ==
    IF rest.error # NoError THEN rest
    ELSE Filtered((IF val.value # Undefined THEN <<val.value>> ELSE <<>>) \o rest.value,
                  NoError, rest.policies, rest.log)

\* The items after item i, unless the filter of item i threw
ItemsAfter(items, i, child, c, val) ==
    IF val.error # NoError THEN val
    ELSE Pushed(val, FilterItems(items, i + 1, child, c, val.policies, val.log))

\* filterType's loop over the items of an array, from item i: the values
\* that are not undefined, in order
FilterItems(items, i, child, c, policies, log) ==
    IF i > Len(items) THEN Filtered(<<>>, NoError, policies, log)
    ELSE ItemsAfter(items, i, child, c, FilterType(items[i], child, c, policies, log))

\* Variant that lets every read through
GetAuthorizeAlways(prop, info, policies, log) ==
    Verdict("true", NoError, policies, log)

\* getAuthorize(prop.authorizer, ...)
GetAuthorize(prop, info, policies, log) ==
    IF prop.always THEN Verdict("true", NoError, policies, log)
    ELSE AuthorizeReversed(ReverseSeq(policies), prop.keys, info, log)

\* if (val !== undefined) result[prop.name] = val, then the properties after
Assigned(raw, properties, i, fields, c, candidate) ==
    IF candidate.error # NoError THEN candidate
    ELSE FilterProperties(raw, properties, i + 1,
             [fields EXCEPT ![properties[i].name] = candidate.value], c,
             candidate.policies, candidate.log)

\* The body of the loop over node.properties after getAuthorize returned
AfterReadCheck(raw, properties, i, fields, c, authorized) ==
    IF authorized.res = "error"
    THEN Filtered(fields, authorized.error, authorized.policies, authorized.log)
    ELSE IF authorized.res = "false"
    THEN FilterProperties(raw, properties, i + 1, fields, c,
                          authorized.policies, authorized.log)
    ELSE Assigned(raw, properties, i, fields, c,
             FilterType(Get(raw, properties[i].name), properties[i].type, c,
                        authorized.policies, authorized.log))

\* filterType's loop over node.properties, from property i, with the object
\* built so far
FilterProperties(raw, properties, i, fields, c, policies, log) ==
    IF i > Len(properties) THEN Filtered(fields, NoError, policies, log)
    ELSE IF IsNullish(Get(raw, properties[i].name))
    THEN FilterProperties(raw, properties, i + 1, fields, c, policies, log)
    ELSE AfterReadCheck(raw, properties, i, fields, c,
             GetAuthorize(properties[i],
                 AuthContext(c.user, "read", Get(raw, properties[i].name),
                             MemberLocation(properties[i].meta, properties[i].parent),
                             Metadata(c.route, c.parameters, properties[i].parent, raw)),
                 policies, log))

\* responseAuthorize: the type the response is filtered by
ResponseType(action) ==
    IF \E d \in DOMAIN action.decorators :
           action.decorators[d].type = "plumier-meta:response-type"
    THEN LET d == CHOOSE d \in DOMAIN action.decorators :
                      /\ action.decorators[d].type = "plumier-meta:response-type"
                      /\ \A e \in 1..(d - 1) :
                            action.decorators[e].type # "plumier-meta:response-type"
         IN  action.decorators[d].ref
    ELSE action.returnType

\* const result = await invocation.proceed(): the action runs and returns
Proceed(raw) ==
    /\ pc = "handler"
    /\ result' = raw
    /\ pc' = "response"
    /\ UNCHANGED << globalPolicies, config, authPolicies, ctx, tasks, error, calls, response >>

\* responseAuthorize after filterType returned
BodyFiltered(body) ==
    /\ authPolicies' = body.policies
    /\ calls' = body.log
    /\ IF body.error # NoError
       THEN error' = body.error /\ pc' = "failed" /\ UNCHANGED response
       ELSE /\ response' = ActionResult(result.status, body.value)
            /\ pc' = "done"
            /\ UNCHANGED error

\* Variant of the condition that filters the body whatever the status
IsFilteredAnyStatus(type, raw) ==
    /\ type # TypeOf("Promise")
    /\ type # NoType
    /\ ~IsNullish(raw.body)
    /\ raw.body # Num(0)

\* The condition under which responseAuthorize filters the body; raw.body
\* is truthy: not undefined, not null, not 0
IsFiltered(type, raw) ==
    /\ type # TypeOf("Promise")
    /\ type # NoType
    /\ raw.status = 200
    /\ ~IsNullish(raw.body)
    /\ raw.body # Num(0)

\* responseAuthorize(result, invocation.ctx)
ResponseAuthorize ==
    /\ pc = "response"
    /\ IF IsFiltered(ResponseType(ctx.route.action), result)
       THEN IF result.body.k = "array" /\ Len(result.body.items) = 0
            THEN /\ response' = ActionResult(result.status, Arr(<<>>))
                 /\ pc' = "done"
                 /\ UNCHANGED << authPolicies, calls, error >>
            ELSE BodyFiltered(
                     FilterType(result.body,
                         CompileType(ResponseType(ctx.route.action), <<>>),
                         [user |-> ctx.user, controller |-> ctx.route.controller.name,
                          action |-> ctx.route.action.name, route |-> ctx.route,
                          parameters |-> ctx.parameters],
                         authPolicies, calls))
       ELSE /\ response' = result
            /\ pc' = "done"
            /\ UNCHANGED << authPolicies, calls, error >>
    /\ UNCHANGED << globalPolicies, config, ctx, tasks, result >>

\* The response is sent and the request's context is dropped
EndRequest ==
    /\ pc \in {"failed", "done"}
    /\ \A t \in DOMAIN tasks : tasks[t].status # "await"
    /\ pc' = "idle"
    /\ ctx' = NoContext
    /\ tasks' = <<>>
    /\ error' = NoError
    /\ calls' = <<>>
    /\ result' = NoResult
    /\ response' = NoResult
    /\ UNCHANGED << globalPolicies, config, authPolicies >>

(***************************************************************************)
(* Specifications.  The three differ in the requests they draw: the steps  *)
(* of a request are the same.                                              *)
(***************************************************************************)
\* Values of the response types
TagBodies == { Tag(id, label) : id \in {Undefined, Scalar}, label \in {Undefined, Null, Scalar} }
KidBodies == { Animal(Scalar, Undefined, Undefined, Undefined),
               Animal(Undefined, Undefined, Tag(Undefined, Scalar), Undefined) }
AnimalBodies ==
    { Animal(id, tag, owner, Undefined) :
         id \in {Undefined, Scalar},
         tag \in {Undefined, Tag(Scalar, Undefined), Tag(Undefined, Scalar)},
         owner \in {Undefined, Tag(Undefined, Scalar), Tag(Scalar, Scalar)} }
    \cup { Animal(id, Undefined, Undefined, kids) :
              id \in {Undefined, Scalar}, kids \in ArraysOf(KidBodies, MaxArrayLen) }

\* Products of a shop that lists its products, and a plain product
ProductBodies ==
    { Product(Scalar, Undefined, Undefined) }
    \cup { Product(Scalar, Undefined, Obj("Shop", [id |-> id, products |-> Arr(products)])) :
              id \in {Undefined, Scalar},
              products \in { <<>>, << Product(Scalar, Undefined, Undefined) >> } }

BodiesOf(type) ==
    IF type = TypeOf("Tag") THEN TagBodies \cup {Undefined}
    ELSE IF type = TypeOf("Animal") THEN AnimalBodies
    ELSE IF type = TypeOf("Product") THEN ProductBodies
    ELSE IF type = ArrayOf("Tag")
    THEN ArraysOf({Tag(Scalar, Scalar), Tag(Undefined, Scalar)}, MaxArrayLen)
             \cup {Tag(Scalar, Scalar)}
    ELSE IF type = TypeOf("String") THEN {Scalar}
    ELSE {Tag(Scalar, Scalar)}

ReturnTypes ==
    { TypeOf("Tag"), TypeOf("Animal"), ArrayOf("Tag"), TypeOf("String"),
      TypeOf("Promise"), NoType, TypeOf("Product") }

\* What the action of a route may return
ActionResults(route) ==
    { ActionResult(200, body) : body \in BodiesOf(ResponseType(route.action)) }
    \cup { ActionResult(201, Tag(Scalar, Scalar)), ActionResult(200, Num(0)) }

\* A representative return for the requests that study the guards
SomeResults(route) == { ActionResult(200, Tag(Scalar, Scalar)) }

\* Routes that differ in the level the route decorators come from
LevelRoutes ==
    { RouteInfo(<<>>, <<>>),
      RouteInfo(<<>>, << OnMethod(<<"admin">>) >>),
      RouteInfo(<<>>, << OnMethod(<<Public>>) >>),
      RouteInfo(<< OnClass(<<Public>>) >>, <<>>),
      RouteInfo(<<>>, << OnMethod(<<"admin", "user">>) >>),
      RouteInfo(<<>>, << AuthorizeDecorator(<<"admin">>, "write", "Method") >>) }

\* Routes that differ in the type of the response
TypedRoutes ==
    { [controller |-> [name |-> "AnimalController", decorators |-> <<>>],
       action |-> Action(<< OnMethod(<<Public>>) >>, t)] : t \in ReturnTypes }
    \cup { [controller |-> [name |-> "AnimalController", decorators |-> <<>>],
            action |-> Action(<< OnMethod(<<Public>>), ResponseTypeDecorator(TypeOf("Tag")) >>,
                              TypeOf("Animal"))] }

SomeParameters == { << Undefined, Undefined >>, << Scalar, Undefined >> }

\* Parameter values with absent members, for the requests that study the filter
AbsentParameters ==
    { << Undefined, Undefined >>, << Scalar, Null >>,
      << Undefined, Animal(Undefined, Tag(Undefined, Scalar), Undefined, Arr(<<>>)) >> }

\* Requests over every route, with few parameter values and results
Next ==
    \/ \E user \in Users, route \in Routes, method \in HttpMethods :
          BeginRequest(user, route, method, <<>>)
    \/ \E t \in 1..2 : ResumeAuthorizer(t)
    \/ CheckUserAccessToRoute
    \/ \E values \in SomeParameters : CheckUserAccessToParameters(values)
    \/ \E raw \in SomeResults(ctx.route) : Proceed(raw)
    \/ ResponseAuthorize
    \/ EndRequest

Spec == Init /\ [][Next]_vars

\* Requests over every parameter value, on few routes
ParameterNext ==
    \/ \E user \in Users, route \in LevelRoutes, method \in HttpMethods :
          BeginRequest(user, route, method, <<>>)
    \/ \E t \in 1..2 : ResumeAuthorizer(t)
    \/ CheckUserAccessToRoute
    \/ \E values \in ParameterValues : CheckUserAccessToParameters(values)
    \/ \E raw \in SomeResults(ctx.route) : Proceed(raw)
    \/ ResponseAuthorize
    \/ EndRequest

ParameterSpec == Init /\ [][ParameterNext]_vars

\* Requests over every response type and body, on public routes
ResponseNext ==
    \/ \E user \in Users, route \in TypedRoutes, method \in HttpMethods :
          BeginRequest(user, route, method, <<>>)
    \/ \E t \in 1..2 : ResumeAuthorizer(t)
    \/ CheckUserAccessToRoute
    \/ \E values \in AbsentParameters : CheckUserAccessToParameters(values)
    \/ \E raw \in ActionResults(ctx.route) : Proceed(raw)
    \/ ResponseAuthorize
    \/ EndRequest

ResponseSpec == Init /\ [][ResponseNext]_vars

\* const AdminPolicy = entityPolicy(Shop).define("ShopAdmin", ...) and a policy
\* of the same name for Product, one of them with a failing evaluator
EntityPolicies ==
    { << DefineEntity("Shop", "ShopAdmin", "ownsId"),
         DefineEntity("Product", "ShopAdmin", "ownsId"),
         Define("user", "roleEquals") >>,
      << DefineEntity("Product", "ShopAdmin", "throws"),
         DefineEntity("Shop", "ShopAdmin", "ownsId") >> }

\* class ShopsController { @route.get(":id") get(id: number, data: Shop) }
ShopsRoute(decorators, returnType) ==
    [controller |-> [name |-> "ShopsController", decorators |-> <<>>],
     action |-> [name |-> "get", decorators |-> decorators,
                 parameters |->
                    << [kind |-> "Parameter", name |-> "id", type |-> TypeOf("Number"),
                        decorators |-> <<>>],
                       [kind |-> "Parameter", name |-> "data", type |-> TypeOf("Shop"),
                        decorators |-> <<>>] >>,
                 returnType |-> returnType]]

\* The action with @entityProvider(...) absent, of the entity or of another
\* entity, under the @authorize.route(...) stacks of the tests
ShopRoutes ==
    { ShopsRoute(provider \o decorators, type) :
         provider \in { <<>>, << EntityPolicyProviderDecorator("Shop", "id") >>,
                        << EntityPolicyProviderDecorator("Product", "id") >> },
         decorators \in { << OnMethod(<<"ShopAdmin">>) >>,
                          << OnMethod(<<"user", "ShopAdmin">>) >>,
                          << OnMethod(<<Public>>) >>,
                          << OnMethod(<<"ShopAdmin">>), OnMethod(<<"user">>) >> },
         type \in { TypeOf("Shop"), TypeOf("Product") } }

\* ctx.parameters of /shops/:id with a body
ShopParameterValues ==
    { << id, data >> : id \in { Num(1), Num(2) },
                       data \in { Undefined, Shop(Num(1), Scalar) } }

\* What get returns
ShopResults(route) ==
    IF ResponseType(route.action) = TypeOf("Shop")
    THEN { ActionResult(200, Shop(id, secret)) :
              id \in { Undefined, Num(1), Num(2) }, secret \in { Undefined, Scalar } }
    ELSE { ActionResult(200, Product(Num(1), Scalar, Undefined)),
           ActionResult(200, Product(Num(2), Undefined, Undefined)),
           ActionResult(200, Product(Num(1), Undefined, Shop(Num(2), Scalar))),
           ActionResult(200, Product(Num(2), Undefined, Shop(Num(1), Scalar))) }

\* An application whose policies are entity policies
EntityInit ==
    /\ config \in { Facility(p, <<>>, TRUE) : p \in EntityPolicies }
    /\ authPolicies = config.authPolicies
    /\ globalPolicies = <<>>
    /\ pc = "idle"
    /\ ctx = NoContext
    /\ tasks = <<>>
    /\ error = NoError
    /\ calls = <<>>
    /\ result = NoResult
    /\ response = NoResult

\* Requests to the shops controller, the parameters bound before the guards
EntityNext ==
    \/ \E user \in Users, route \in ShopRoutes, method \in HttpMethods,
          values \in ShopParameterValues :
          BeginRequest(user, route, method, values)
    \/ \E t \in 1..2 : ResumeAuthorizer(t)
    \/ CheckUserAccessToRoute
    \/ \E values \in ShopParameterValues : CheckUserAccessToParameters(values)
    \/ \E raw \in ShopResults(ctx.route) : Proceed(raw)
    \/ ResponseAuthorize
    \/ EndRequest

EntitySpec == EntityInit /\ [][EntityNext]_vars

\* Policy classes an application may pass to the facility: custom and
\* entity policies that share names
CandidatePolicies ==
    { Define("Tomato", "roleEquals"), Define("Mango", "roleEquals"),
      DefineEntity("Shop", "Tomato", "ownsId"), DefineEntity("Sheep", "Tomato", "ownsId"),
      DefineEntity("Shop", "Mango", "ownsId") }

\* Longest list of policies an application passes
MaxPolicies == 3

CandidateLists == UNION { [1..n -> CandidatePolicies] : n \in 2..MaxPolicies }

\* The application before initialize(): the facility holds the policies
StartupInit ==
    /\ config \in { Facility(list, <<>>, TRUE) : list \in CandidateLists }
    /\ authPolicies = config.authPolicies
    /\ globalPolicies = <<>>
    /\ pc = "startup"
    /\ ctx = NoContext
    /\ tasks = <<>>
    /\ error = NoError
    /\ calls = <<>>
    /\ result = NoResult
    /\ response = NoResult

\* The conflict check of initialization finds that policy a conflicts with
\* another policy b: initialization fails with an error naming both
ConflictFound(a, b) ==
    /\ pc = "startup"
    /\ a # b
    /\ PolicyConflict(authPolicies[a], authPolicies[b])
    /\ pc' = "aborted"
    /\ error' = PlainError(FriendlyName(authPolicies[a]) \o ", " \o FriendlyName(authPolicies[b]))
    /\ UNCHANGED << globalPolicies, config, authPolicies, ctx, tasks, calls, result, response >>

\* The conflict check finds no pair: the application serves
Initialized ==
    /\ pc = "startup"
    /\ \A a, b \in DOMAIN authPolicies :
          a # b => ~PolicyConflict(authPolicies[a], authPolicies[b])
    /\ pc' = "idle"
    /\ UNCHANGED << globalPolicies, config, authPolicies, ctx, tasks, error, calls, result, response >>

StartupNext ==
    \/ \E a, b \in DOMAIN authPolicies : ConflictFound(a, b)
    \/ Initialized

StartupSpec == StartupInit /\ [][StartupNext]_vars

\* Most policies the module's builders register
MaxRegistered == 3

\* Ids the builders are called with
BuilderIds == {"Tomato", "Mango"}

\* authPolicy() and entityPolicy(entity): builders over the module's array
AuthPolicyBuilder == [class |-> "AuthPolicyBuilder"]
EntityPolicyBuilder(entity) == [class |-> "EntityPolicyBuilder", entity |-> entity]

\* Variant of register that puts the policy at the head of the array
RegisterPolicyAtHead(id, authorizer) ==
    /\ pc = "load"
    /\ Len(globalPolicies) < MaxRegistered
    /\ globalPolicies' = << Define(id, authorizer) >> \o globalPolicies
    /\ result' = AuthPolicyBuilder
    /\ UNCHANGED << config, authPolicies, pc, ctx, tasks, error, calls, response >>

\* authPolicy().define(id, authorizer): the policy class is returned
DefinePolicy(id, authorizer) ==
    /\ pc = "load"
    /\ result' = Define(id, authorizer)
    /\ UNCHANGED << globalPolicies, config, authPolicies, pc, ctx, tasks, error, calls, response >>

\* authPolicy().register(id, authorizer): the class is defined and pushed,
\* the builder is returned
RegisterPolicy(id, authorizer) ==
    /\ pc = "load"
    /\ Len(globalPolicies) < MaxRegistered
    /\ globalPolicies' = Append(globalPolicies, Define(id, authorizer))
    /\ result' = AuthPolicyBuilder
    /\ UNCHANGED << config, authPolicies, pc, ctx, tasks, error, calls, response >>

\* entityPolicy(entity).define(id, authorizer)
DefineEntityPolicy(entity, id, authorizer) ==
    /\ pc = "load"
    /\ result' = DefineEntity(entity, id, authorizer)
    /\ UNCHANGED << globalPolicies, config, authPolicies, pc, ctx, tasks, error, calls, response >>

\* entityPolicy(entity).register(id, authorizer)
RegisterEntityPolicy(entity, id, authorizer) ==
    /\ pc = "load"
    /\ Len(globalPolicies) < MaxRegistered
    /\ globalPolicies' = Append(globalPolicies, DefineEntity(entity, id, authorizer))
    /\ result' = EntityPolicyBuilder(entity)
    /\ UNCHANGED << config, authPolicies, pc, ctx, tasks, error, calls, response >>

\* The modules of an application load: the array is empty, no facility yet
\* read it
BuilderInit ==
    /\ globalPolicies = <<>>
    /\ config = Facility(<<>>, <<>>, TRUE)
    /\ authPolicies = config.authPolicies
    /\ pc = "load"
    /\ ctx = NoContext
    /\ tasks = <<>>
    /\ error = NoError
    /\ calls = <<>>
    /\ result = NoResult
    /\ response = NoResult

BuilderNext ==
    \/ \E id \in BuilderIds, authorizer \in {"roleEquals", "throwsValue"} :
          DefinePolicy(id, authorizer)
    \/ \E id \in BuilderIds, authorizer \in {"roleEquals", "throwsValue"} :
          RegisterPolicy(id, authorizer)
    \/ \E entity \in {"Shop", "Sheep"}, id \in BuilderIds :
          DefineEntityPolicy(entity, id, "ownsId")
    \/ \E entity \in {"Shop", "Sheep"}, id \in BuilderIds :
          RegisterEntityPolicy(entity, id, "ownsId")

BuilderSpec == BuilderInit /\ [][BuilderNext]_vars

(***************************************************************************)
(* Properties of the route guard                                           *)
(***************************************************************************)
\* The route decorators in effect for the request and the names they list
EffectiveDecorators == GetRouteAuthorizeDecorators(ctx.route, config.globalAuthorizations)
EffectiveNames == PoliciesOf(EffectiveDecorators)

\* What the evaluators of the registered policies named in `names` return
\* for an identity
Returned(names, user) ==
    { PolicyAuthorize(authPolicies[i], AuthContext(user, "route", Undefined, "", NoMetadata)) :
         i \in { j \in DOMAIN authPolicies :
                    \E k \in DOMAIN names : authPolicies[j].name = names[k] } }
Satisfied(names, user) == "true" \in Returned(names, user)
Throwing(names, user) == "throw" \in Returned(names, user)

\* checkUserAccessToRoute returned / threw, and nothing ran after it
RoutePassed == config.enableAuthorization /\ pc = "parameters"
RouteFailed == pc = "failed" /\ ctx.parameters = <<>> /\ result = NoResult
RouteDenied(status) ==
    RouteFailed /\ error.type = "HttpStatusError" /\ error.status = status

\* A guard threw a denial; an evaluator threw
Denied == pc = "failed" /\ error.type = "HttpStatusError"
PolicyFailed == pc = "failed" /\ error.type = "Error"

\* No route-scoped decorator on the method or on the class
Undecorated(route) ==
    /\ SelectSeqBy(route.action.decorators, "route") = <<>>
    /\ SelectSeqBy(route.controller.decorators, "route") = <<>>

NamesPublic == \E k \in DOMAIN EffectiveNames : EffectiveNames[k] = Public

\* C1: for the policy set P the effective route decorators name, a request
\* whose identity satisfies a registered policy of P passes the route check,
\* one with an identity that satisfies none is answered Unauthorized (401),
\* one without identity (P not allowing) Forbidden (403).  Stated for the
\* requests for which no evaluator of P throws.
RouteOutcomeFollowsPolicySet ==
    (RoutePassed \/ RouteFailed) /\ ~Throwing(EffectiveNames, ctx.user) =>
        IF Satisfied(EffectiveNames, ctx.user) THEN RoutePassed
        ELSE IF ctx.user # Undefined THEN RouteDenied(Unauthorized)
        ELSE RouteDenied(Forbidden)

\* C2: a denial of the route guard or of the parameter-write guard carries
\* status 403 exactly when the request has no identity and 401 exactly when
\* it has one, and never another status.
DenialStatusFollowsIdentity ==
    Denied =>
        /\ error.status \in {Forbidden, Unauthorized}
        /\ error.status = Forbidden <=> ctx.user = Undefined
        /\ error.status = Unauthorized <=> ctx.user # Undefined

\* C2, reached: a request without identity passed a route and its parameters
\* were denied
AnonymousParameterDenial ==
    Denied /\ ctx.parameters # <<>> /\ ctx.user = Undefined /\ error.status = Forbidden

\* C3: on a route with no route-scoped decorator on its method or its class,
\* in an application that configures no global default, a request without
\* identity is answered Forbidden (403) and one with any identity passes the
\* route check.
UndecoratedRouteNeedsIdentity ==
    /\ Undecorated(ctx.route)
    /\ config.globalAuthorize = <<>>
    /\ RoutePassed \/ RouteFailed
    => IF ctx.user = Undefined THEN RouteDenied(Forbidden) ELSE RoutePassed

\* C3, reached: an identity passed an undecorated route with no global
\* default configured
UndecoratedRoutePassed ==
    /\ Undecorated(ctx.route)
    /\ config.globalAuthorize = <<>>
    /\ ctx.user # Undefined
    /\ RoutePassed

\* C4: the route check passes for every request, with or without identity,
\* on a route whose effective route decorators name Public.  Stated for the
\* requests for which no evaluator the decorators name throws.
PublicRoutePasses ==
    /\ NamesPublic
    /\ RoutePassed \/ RouteFailed
    /\ ~Throwing(EffectiveNames, ctx.user)
    => RoutePassed

\* The keys of the authorizers started, and the keys of a list of decorators
TaskKeys == [t \in DOMAIN tasks |-> tasks[t].keys]
KeysOf(decorators) == [d \in DOMAIN decorators |-> decorators[d].policies]
\* Every policy evaluated for the route is one of `names`
RouteCallsWithin(names) ==
    \A c \in DOMAIN calls :
        calls[c].access = "route" => \E k \in DOMAIN names : names[k] = calls[c].policy

\* C5: the authorizers of a request are those of exactly one level: of the
\* method's route-scoped decorators if it has any, else of the class's if it
\* has any, else of one decorator made from the global default; and no
\* policy that only another level names is evaluated for the route.
OneLevelDecides ==
    config.enableAuthorization /\ pc \in {"route", "parameters"} =>
        LET onMethod == SelectSeqBy(ctx.route.action.decorators, "route")
            onClass == SelectSeqBy(ctx.route.controller.decorators, "route")
        IN  /\ onMethod # <<>> =>
                 TaskKeys = KeysOf(onMethod) /\ RouteCallsWithin(PoliciesOf(onMethod))
            /\ onMethod = <<>> /\ onClass # <<>> =>
                 TaskKeys = KeysOf(onClass) /\ RouteCallsWithin(PoliciesOf(onClass))
            /\ onMethod = <<>> /\ onClass = <<>> =>
                 /\ TaskKeys = << config.globalAuthorizations >>
                 /\ RouteCallsWithin(config.globalAuthorizations)

\* C5, reached: a method decorator decided over a class decorator and a
\* global default
MethodLevelDecided ==
    /\ RoutePassed
    /\ SelectSeqBy(ctx.route.controller.decorators, "route") # <<>>
    /\ PoliciesOf(SelectSeqBy(ctx.route.action.decorators, "route")) = <<"user">>
    /\ ctx.user = UserOf("user")
    /\ calls # <<>>

\* Two stacked decorators of one name each; one decorator of two names
IsStacked(decorators) ==
    /\ Len(decorators) = 2
    /\ \A d \in 1..2 : decorators[d].access = "route" /\ Len(decorators[d].policies) = 1
IsSingle(decorators) ==
    /\ Len(decorators) = 1
    /\ decorators[1].access = "route" /\ Len(decorators[1].policies) = 2
\* How the route check ended
Outcome ==
    IF RoutePassed THEN "pass"
    ELSE IF error.type = "HttpStatusError" THEN ToString(error.status)
    ELSE "error"
\* How the route check over one decorator naming `names` ends
OutcomeOfOne(names) ==
    LET one == ExecuteAuthorizer(authPolicies, names,
                   AuthContext(ctx.user, "route", Undefined, "", NoMetadata), <<>>)
    IN  IF one.res = "true" THEN "pass"
        ELSE IF one.res = "error" THEN "error"
        ELSE ToString(ThrowAuthError(ctx.user, "").status)

ParametersWereChecked == ctx.parameters # <<>>
ParametersDenied == Denied /\ ParametersWereChecked /\ result = NoResult

\* A request that is not a GET sets the guarded parameter id, and its caller
\* is not the admin the guard asks for
GuardedParameterSet ==
    /\ ParametersWereChecked
    /\ ctx.method # "GET"
    /\ ctx.parameters[1] = Scalar
    /\ ctx.user # UserOf("admin")

\* C7: on a request that is not a GET, the parameter-write checks run and
\* reject a guarded parameter the caller may not set although the route check
\* passed through Public, named on the method, on the class or as the global
\* default (unless an evaluator throws during the walk).
PublicRouteChecksParameters ==
    NamesPublic /\ GuardedParameterSet /\ ~PolicyFailed =>
        /\ ParametersDenied
        /\ \E c \in DOMAIN calls :
              /\ calls[c].access = "write"
              /\ calls[c].policy = "admin"
              /\ calls[c].location = "parameter AnimalController.id"

\* C7, reached: a request was denied for its parameters under a global
\* default of Public
GloballyPublicParameterDenial ==
    /\ Undecorated(ctx.route)
    /\ config.globalAuthorizations = <<Public>>
    /\ GuardedParameterSet
    /\ ParametersDenied

WriteNames(meta) == PoliciesOf(SelectSeqBy(meta.decorators, "write"))

RECURSIVE UnauthorizedPaths(_, _, _, _)
\* The paths under `path` the caller may not set, in walk order
UnauthorizedPaths(meta, value, path, user) ==
    IF IsNullish(value) THEN <<>>
    ELSE IF WriteNames(meta) # <<>> /\ ~Satisfied(WriteNames(meta), user) THEN << path >>
    ELSE IF IsRelation(meta) THEN <<>>
    ELSE IF meta.type.array
    THEN Flatten([i \in DOMAIN value.items |->
             UnauthorizedPaths([meta EXCEPT !.type = TypeOf(meta.type.name)],
                               value.items[i], path \o "." \o ToString(i - 1), user)])
    ELSE IF IsCustomClass(meta.type)
    THEN Flatten([i \in DOMAIN Reflect(meta.type.name) |->
             UnauthorizedPaths(Reflect(meta.type.name)[i],
                               Get(value, Reflect(meta.type.name)[i].name),
                               path \o "." \o Reflect(meta.type.name)[i].name, user)])
    ELSE <<>>

\* The unauthorized paths of the parameters the request binds
RequestUnauthorizedPaths ==
    IF ctx.method = "GET" THEN <<>>
    ELSE Flatten([i \in DOMAIN ctx.parameters |->
             UnauthorizedPaths(ctx.route.action.parameters[i], ctx.parameters[i],
                               ctx.route.action.parameters[i].name, ctx.user)])

\* C10: when the walk finds an unauthorized path, the request is denied with
\* one error whose message lists every unauthorized path, joined by ", ", in
\* depth-first pre-order: parameters in declared order, properties in
\* declaration order, array elements by index.  A walk that an evaluator
\* aborts by throwing finds nothing: the request ends with that error.
DenialListsEveryPath ==
    ParametersWereChecked /\ result = NoResult /\ ~PolicyFailed =>
        IF RequestUnauthorizedPaths = <<>> THEN pc = "handler"
        ELSE /\ ParametersDenied
             /\ error.message = "Unauthorized to populate parameter paths ("
                                   \o Join(RequestUnauthorizedPaths, ", ") \o ")"

\* C10, reached: a denial that lists paths of two parameters, one of them
\* inside the second element of an array
DenialListsNestedPaths ==
    /\ ParametersDenied
    /\ Len(RequestUnauthorizedPaths) >= 3
    /\ \E i \in DOMAIN RequestUnauthorizedPaths : RequestUnauthorizedPaths[i] = "data.kids.1.id"
    /\ RequestUnauthorizedPaths[1] = "id"

RECURSIVE WalkPaths(_, _, _, _, _), WalkLocations(_, _, _, _, _)
\* The paths a walk records when it stops at a denied value and continues
\* into an allowed or unguarded one; `relations` tells whether it continues
\* into relation properties too
WalkPaths(meta, value, path, user, relations) ==
    IF IsNullish(value) THEN <<>>
    ELSE IF WriteNames(meta) # <<>> /\ ~Satisfied(WriteNames(meta), user) THEN << path >>
    ELSE IF IsRelation(meta) /\ ~relations THEN <<>>
    ELSE IF meta.type.array
    THEN Flatten([i \in DOMAIN value.items |->
             WalkPaths([meta EXCEPT !.type = TypeOf(meta.type.name)],
                       value.items[i], path \o "." \o ToString(i - 1), user, relations)])
    ELSE IF IsCustomClass(meta.type)
    THEN Flatten([i \in DOMAIN Reflect(meta.type.name) |->
             WalkPaths(Reflect(meta.type.name)[i],
                       Get(value, Reflect(meta.type.name)[i].name),
                       path \o "." \o Reflect(meta.type.name)[i].name, user, relations)])
    ELSE <<>>

\* The locations at which such a walk evaluates a write policy
WalkLocations(meta, value, parent, user, relations) ==
    IF IsNullish(value) THEN {}
    ELSE (IF WriteNames(meta) # <<>> THEN { MemberLocation(meta, parent) } ELSE {})
         \cup
         IF WriteNames(meta) # <<>> /\ ~Satisfied(WriteNames(meta), user) THEN {}
         ELSE IF IsRelation(meta) /\ ~relations THEN {}
         ELSE IF meta.type.array
         THEN UNION { WalkLocations([meta EXCEPT !.type = TypeOf(meta.type.name)],
                                    value.items[i], parent, user, relations) :
                         i \in DOMAIN value.items }
         ELSE IF IsCustomClass(meta.type)
         THEN UNION { WalkLocations(Reflect(meta.type.name)[i],
                                    Get(value, Reflect(meta.type.name)[i].name),
                                    meta.type.name, user, relations) :
                         i \in DOMAIN Reflect(meta.type.name) }
         ELSE {}

\* The same for the parameters of the request
RequestWalkPaths(relations) ==
    Flatten([i \in DOMAIN ctx.parameters |->
        WalkPaths(ctx.route.action.parameters[i], ctx.parameters[i],
                  ctx.route.action.parameters[i].name, ctx.user, relations)])
RequestWalkLocations(relations) ==
    UNION { WalkLocations(ctx.route.action.parameters[i], ctx.parameters[i],
                          ctx.route.controller.name, ctx.user, relations) :
               i \in DOMAIN ctx.parameters }

\* The locations at which the request evaluated a write policy
WriteCallLocations == { calls[c].location : c \in { d \in DOMAIN calls : calls[d].access = "write" } }

\* The walk of a request that is not a GET ended without an evaluator throwing
WalkEnded == ParametersWereChecked /\ result = NoResult /\ ~PolicyFailed /\ ctx.method # "GET"

\* The walk recorded exactly `paths`
Recorded(paths) ==
    IF paths = <<>> THEN pc = "handler"
    ELSE ParametersDenied /\ error.message = ParameterMessage(paths)

\* C11: a value whose write authorizer denies has exactly its own path
\* recorded and is not walked into (no path and no policy evaluation of a
\* descendant); a value whose write authorizer allows, or that has no write
\* decorator, is walked into: the elements of an array, the properties of a
\* class.
DenialStopsElseDescends ==
    WalkEnded => /\ Recorded(RequestWalkPaths(TRUE))
                 /\ WriteCallLocations = RequestWalkLocations(TRUE)

\* C11 as amended: the same, except that the walk never continues into a
\* property flagged as a relation, whatever its write authorizer answers.
DenialStopsElseDescendsButRelations ==
    WalkEnded => /\ Recorded(RequestWalkPaths(FALSE))
                 /\ WriteCallLocations = RequestWalkLocations(FALSE)

\* C11, reached: an admin was denied data.tag, whose id nobody may set, and
\* only data.tag was recorded
DeniedValueNotWalked ==
    /\ ParametersDenied
    /\ ctx.user = UserOf("admin")
    /\ ctx.parameters = << Undefined, Animal(Undefined, Tag(Scalar, Undefined), Undefined, Undefined) >>
    /\ error.message = ParameterMessage(<< "data.tag" >>)
    /\ WriteCallLocations = { "property Animal.tag" }

(***************************************************************************)
(* Properties of the response-read filter                                  *)
(***************************************************************************)
\* responseAuthorize filtered a body of the class the action returns
ClassBodyFiltered ==
    /\ pc = "done"
    /\ ResponseType(ctx.route.action) \in {TypeOf("Tag"), TypeOf("Animal")}
    /\ IsFiltered(ResponseType(ctx.route.action), result)

ReadNames(prop) == PoliciesOf(SelectSeqBy(prop.decorators, "read"))
BodyProperties == Reflect(ResponseType(ctx.route.action).name)

\* The property is in the filtered body
Present(prop) == response.body # Undefined /\ Get(response.body, prop.name) # Undefined

RECURSIVE Survives(_, _, _, _)
\* Whether a value that is not null filters to something other than
\* undefined: a scalar does; an array if an element does; an object if its
\* class is not being filtered further up (parents) and a property that is
\* not null, that the caller may read, does
Survives(value, type, parents, user) ==
    IF type.array
    THEN \E i \in DOMAIN value.items : Survives(value.items[i], TypeOf(type.name), parents, user)
    ELSE IF IsCustomClass(type)
    THEN /\ type.name \notin parents
         /\ \E i \in DOMAIN Reflect(type.name) :
               LET prop == Reflect(type.name)[i]
               IN  /\ ~IsNullish(Get(value, prop.name))
                   /\ ReadNames(prop) = <<>> \/ Satisfied(ReadNames(prop), user)
                   /\ Survives(Get(value, prop.name), prop.type,
                               parents \cup {type.name}, user)
    ELSE TRUE

AbsentValueNeverEvaluated ==
    /\ \A c \in DOMAIN calls :
          calls[c].access \in {"read", "write"} => ~IsNullish(calls[c].value)
    /\ ParametersWereChecked /\ (\A i \in DOMAIN ctx.parameters : IsNullish(ctx.parameters[i]))
          => /\ ~ParametersDenied
             /\ \A c \in DOMAIN calls : calls[c].access # "write"
    /\ ClassBodyFiltered =>
          \A i \in DOMAIN BodyProperties :
              IsNullish(Get(result.body, BodyProperties[i].name)) =>
                  /\ ~Present(BodyProperties[i])
                  /\ \A c \in DOMAIN calls :
                        calls[c].access = "read" =>
                            calls[c].location # MemberLocation(BodyProperties[i],
                                                    ResponseType(ctx.route.action).name)

\* C9, reached: a body with a null guarded property was filtered after a
\* parameter check over a null parameter, with an evaluation for the
\* parameter that is set
AbsentValuesSkipped ==
    /\ ClassBodyFiltered
    /\ result.body = Tag(Scalar, Null)
    /\ ctx.parameters = << Scalar, Null >>
    /\ ctx.method = "POST"
    /\ \E c \in DOMAIN calls : calls[c].access = "write"

(***************************************************************************)
(* Properties of failing evaluators                                        *)
(***************************************************************************)
\* The registered policies an invocation may be of, and whether its
\* evaluator threw: the evaluators that throw do so for every request
PoliciesCalled(call) ==
    { authPolicies[i] : i \in { j \in DOMAIN authPolicies : authPolicies[j].name = call.policy } }
Threw(call) == \E policy \in PoliciesCalled(call) : policy.authorizer \in {"throws", "throwsValue"}

\* The message that wraps what the evaluator of an invocation threw
Wrapped(call, policy) ==
    "Error occur inside authorization policy " \o call.policy \o " on " \o call.location
        \o " \n " \o ErrorContent(policy.authorizer)

\* C12: once an invoked evaluator has thrown (an Error or another value), no
\* phase of the request goes on as if it were allowed; the request fails, not
\* with a 401/403 denial but with an Error whose message holds the policy
\* name, the location and what the evaluator threw.
EvaluatorErrorIsWrapped ==
    \A c \in DOMAIN calls :
        Threw(calls[c]) =>
            /\ pc \in {"route", "failed"}
            /\ pc = "route" => \E t \in DOMAIN tasks : tasks[t].status = "error"
            /\ pc = "failed" =>
                  /\ error.type = "Error"
                  /\ error.status \notin {Forbidden, Unauthorized}
                  /\ \E d \in DOMAIN calls : \E policy \in PoliciesCalled(calls[d]) :
                        Threw(calls[d]) /\ error.message = Wrapped(calls[d], policy)

\* C12, reached: a request failed for an evaluator that threw a value that is
\* not an Error, on a route decorated on its class
ValueThrownOnClass ==
    /\ pc = "failed"
    /\ error.message = "Error occur inside authorization policy HasUser on class AnimalController \n ERROR"

\* C20: once the parameter-write guard has run on a GET, whatever values are
\* bound, no write policy has been evaluated and the guard has let the request
\* through to the action: the request is not denied, and fails, if at all, only
\* after the action returned.
GetSkipsParameterGuard ==
    ctx.method = "GET" /\ ParametersWereChecked
        => /\ \A c \in DOMAIN calls : calls[c].access # "write"
           /\ ~ParametersDenied
           /\ result = NoResult => pc = "handler" /\ error = NoError
           /\ pc = "failed" => result # NoResult

\* C20, reached: a GET whose caller is not the admin passed the guard with
\* the guarded parameter id and the guarded property data.id set
GetWithGuardedValuesPassed ==
    /\ pc = "handler"
    /\ ctx.method = "GET"
    /\ ctx.user = UserOf("user")
    /\ ctx.parameters = << Scalar, Animal(Scalar, Undefined, Undefined, Undefined) >>

(***************************************************************************)
(* Properties of cyclic types                                              *)
(***************************************************************************)
\* The elements of a sequence
Range(seq) == { seq[i] : i \in DOMAIN seq }

RECURSIVE CutAtRepeat(_, _, _), PastRepeat(_, _, _)

\* The node of a type under a chain of ancestor classes: an array node over
\* the node of the element type, a value node, or a class node that has the
\* class's properties in order, and none if the class is on the chain
CutAtRepeat(type, node, chain) ==
    IF type.array
    THEN node.kind = "Array" /\ CutAtRepeat(TypeOf(type.name), node.child, chain)
    ELSE IF IsCustomClass(type)
    THEN /\ node.kind = "Class"
         /\ IF type.name \in chain THEN node.properties = <<>>
            ELSE /\ Len(node.properties) = Len(Reflect(type.name))
                 /\ \A i \in DOMAIN node.properties :
                       /\ node.properties[i].name = Reflect(type.name)[i].name
                       /\ CutAtRepeat(Reflect(type.name)[i].type,
                                      node.properties[i].type, chain \cup {type.name})
    ELSE node.kind = "Value"

\* A value of the type holds an object of a class that is on the chain of
\* the classes of the objects that hold it
PastRepeat(value, type, chain) ==
    IF type.array
    THEN value.k = "array"
         /\ \E i \in DOMAIN value.items : PastRepeat(value.items[i], TypeOf(type.name), chain)
    ELSE /\ IsCustomClass(type)
         /\ value.k = "object"
         /\ \/ type.name \in chain
            \/ \E i \in DOMAIN Reflect(type.name) :
                  PastRepeat(Get(value, Reflect(type.name)[i].name),
                             Reflect(type.name)[i].type, chain \cup {type.name})

\* C17: the compilation of the response type of every route ends, with a
\* class node without properties wherever a class repeats on its chain of
\* ancestors and the full node elsewhere; the filter over it ends, and a
\* filtered body holds no object past such a repetition.
CyclicTypesAreCut ==
    /\ CutAtRepeat(ResponseType(ctx.route.action),
                   CompileType(ResponseType(ctx.route.action), <<>>), {})
    /\ pc = "done" /\ IsFiltered(ResponseType(ctx.route.action), result)
          => ~PastRepeat(response.body, ResponseType(ctx.route.action), {})

\* C17, reached: a product came back with its shop, whose list of products
\* was cut where the product repeats
ProductsOfShopOfProductCut ==
    /\ pc = "done"
    /\ PastRepeat(result.body, TypeOf("Product"), {})
    /\ ResponseType(ctx.route.action) = TypeOf("Product")
    /\ response.body = Product(Scalar, Undefined,
                               Obj("Shop", [id |-> Scalar, products |-> Undefined]))

(***************************************************************************)
(* Properties of emptied values                                            *)
(***************************************************************************)
RECURSIVE HoldsNoEmptied(_)

\* No object held by the value, at any depth, is without keys, and no array
\* it holds is without items or holds undefined
HoldsNoEmptied(value) ==
    IF value.k = "object"
    THEN \A n \in DOMAIN value.p :
            /\ value.p[n].k = "object" => ~HasNoKeys(value.p[n].p)
            /\ value.p[n].k = "array" => value.p[n].items # <<>>
            /\ HoldsNoEmptied(value.p[n])
    ELSE IF value.k = "array"
    THEN \A i \in DOMAIN value.items :
            /\ value.items[i] # Undefined
            /\ value.items[i].k = "object" => ~HasNoKeys(value.items[i].p)
            /\ HoldsNoEmptied(value.items[i])
    ELSE TRUE

\* C18: a filtered body holds no nested object without keys, such objects
\* having become undefined and been dropped by what held them, while the body
\* itself, where the action returned an object, is an object still, even
\* without keys, and never undefined.
EmptiedNestedDroppedTopLevelKept ==
    pc = "done" /\ IsFiltered(ResponseType(ctx.route.action), result)
        => /\ HoldsNoEmptied(response.body)
           /\ result.body.k = "object"
                 /\ IsCustomClass(ResponseType(ctx.route.action))
              => response.body.k = "object"

\* The properties of array type, free to read, of the class of the returned
\* body that hold an empty array
EmptyArraysOf(body) ==
    { prop \in Range(Reflect(body.cls)) :
         /\ prop.type.array
         /\ SelectSeqBy(prop.decorators, "read") = <<>>
         /\ Get(body, prop.name) = Arr(<<>>) }

\* C19: a filtered body that was an empty array is an empty array, and no
\* read policy was invoked for it; an empty array that a returned object holds
\* under a property of array type is an empty array in the filtered body too;
\* and no array of a filtered body holds undefined.
EmptyArrayStaysAndUndefinedDropped ==
    pc = "done" /\ IsFiltered(ResponseType(ctx.route.action), result)
        => /\ result.body = Arr(<<>>)
                => /\ response.body = Arr(<<>>)
                   /\ \A c \in DOMAIN calls : calls[c].access # "read"
           /\ result.body.k = "object" /\ IsCustomClass(ResponseType(ctx.route.action))
                => \A prop \in EmptyArraysOf(result.body) :
                      /\ response.body.k = "object"
                      /\ Get(response.body, prop.name) = Arr(<<>>)
           /\ response.body.k = "array"
                => \A i \in DOMAIN response.body.items : response.body.items[i] # Undefined

(***************************************************************************)
(* Properties of entity policies                                           *)
(***************************************************************************)
\* The comparisons of a requested name with the equal name of an entity
\* policy, made in one of the modes
Resolutions(modes) ==
    { i \in DOMAIN calls : calls[i].op = "equals" /\ calls[i].access \in modes }

\* The entity-provider declarations of the acting method
Declarations ==
    { d \in DOMAIN ctx.route.action.decorators :
         ctx.route.action.decorators[d].type = "plumier-meta:entity-policy-provider" }

\* The value bound to the parameter of the acting method with this name
Bound(name) ==
    IF \E i \in DOMAIN ctx.parameters : ctx.route.action.parameters[i].name = name
    THEN ctx.parameters[CHOOSE i \in DOMAIN ctx.parameters :
                            ctx.route.action.parameters[i].name = name]
    ELSE Undefined

MissingProviderMessage ==
    "Action " \o ctx.route.controller.name \o "." \o ctx.route.action.name
        \o " doesn't have Entity Policy Provider information"

\* C14: in route or write mode, every comparison of a requested name with an
\* entity policy of that name fails, on an action without entity-provider
\* declaration, with the configuration error naming controller and action:
\* the authorizer goes no further and the request ends with that Error, not a
\* 401/403. With a declaration it resolves the declared entity and the bound
\* parameter the declaration names, and these reach the evaluator.
ProviderResolvesRouteAndWrite ==
    /\ \A i \in Resolutions({"route", "write"}) :
          IF Declarations = {}
          THEN /\ calls[i].error = PlainError(MissingProviderMessage)
               /\ pc \in {"route", "failed"}
               /\ pc = "route" => \E t \in DOMAIN tasks :
                                     /\ tasks[t].status = "error"
                                     /\ tasks[t].error = calls[i].error
               /\ pc = "failed" => /\ error = PlainError(MissingProviderMessage)
                                   /\ error.status \notin {Forbidden, Unauthorized}
          ELSE \E d \in Declarations :
                  /\ calls[i].error = NoError
                  /\ calls[i].entity = ctx.route.action.decorators[d].entity
                  /\ calls[i].id = Bound(ctx.route.action.decorators[d].idParam)
    /\ \A i \in DOMAIN calls :
          calls[i].op = "authorize" /\ calls[i].bound # ""
                /\ calls[i].access \in {"route", "write"}
             => \E d \in Declarations :
                  /\ calls[i].entity = ctx.route.action.decorators[d].entity
                  /\ calls[i].id = Bound(ctx.route.action.decorators[d].idParam)

\* C14, reached: a request to an action without declaration, whose route
\* decorator names an entity policy, failed with the configuration error
RouteWithoutProviderFailed ==
    /\ pc = "failed"
    /\ Resolutions({"route"}) # {}
    /\ error.message
          = "Action ShopsController.get doesn't have Entity Policy Provider information"

\* The property a class flags as its primary id, "" if it flags none
PrimaryIdOf(class) == IF class = "Shop" THEN "id" ELSE ""

\* The objects of a returned body: the body and the objects it holds
ObjectsOf(body) ==
    IF body.k # "object" THEN {}
    ELSE {body} \cup { body.p[n] : n \in { m \in DOMAIN body.p : body.p[m].k = "object" } }

\* The invocations of entity policies' evaluators in read mode
EntityReads ==
    { i \in DOMAIN calls : calls[i].op = "authorize" /\ calls[i].bound # ""
                              /\ calls[i].access = "read" }

\* C15: in read mode, every comparison of a requested name with an entity
\* policy of that name is made on an object of the returned body that holds the
\* value under filtering; it resolves the class that owns the property and the
\* value that object holds under the class's primary-id property, and these
\* reach the evaluator. If the class flags no primary id the request ends with
\* the Error naming the entity, not with a 401/403 and not with a response.
ReadResolvesOwnerAndPrimaryId ==
    /\ \A i \in Resolutions({"read"}) \cup EntityReads :
          /\ calls[i].parentValue \in ObjectsOf(result.body)
          /\ calls[i].parentValue.cls = calls[i].owner
          /\ \E n \in DOMAIN calls[i].parentValue.p :
                /\ calls[i].parentValue.p[n] = calls[i].value
                /\ calls[i].location = "property " \o calls[i].owner \o "." \o n
          /\ IF PrimaryIdOf(calls[i].owner) = ""
             THEN /\ calls[i].error = PlainError("Entity " \o calls[i].owner
                        \o " doesn't have primary ID information required for entity policy")
                  /\ calls[i].op = "equals"
                  /\ pc = "failed"
                  /\ error = calls[i].error
                  /\ error.status \notin {Forbidden, Unauthorized}
                  /\ response = NoResult
             ELSE /\ calls[i].error = NoError
                  /\ calls[i].entity = calls[i].owner
                  /\ calls[i].id = calls[i].parentValue.p[PrimaryIdOf(calls[i].owner)]

\* C15, reached: the secret of the shop a returned product holds was kept for
\* the identity that administers that shop, whose id is not the product's
ShopOfProductReadByItsAdmin ==
    /\ pc = "done"
    /\ result.body = Product(Num(2), Undefined, Shop(Num(1), Scalar))
    /\ response.body = result.body
    /\ \E i \in EntityReads : calls[i].id = Num(1) /\ calls[i].entity = "Shop"

\* The names requested where an invocation was made: by the route decorators
\* of the acting method, or by the decorators, of the access under check, of
\* the property the location names
RequestedAt(call) ==
    IF call.access = "route"
    THEN UNION { Range(d.policies) :
                 d \in Range(SelectSeqBy(ctx.route.action.decorators, "route")) }
    ELSE UNION { Range(d.policies) :
                 d \in UNION { Range(SelectSeqBy(p.decorators, call.access)) :
                        p \in { q \in Range(Reflect(call.owner)) :
                                  call.location = "property " \o call.owner \o "." \o q.name } } }

\* The invocations of entity policies' evaluators
EntityCalls == { i \in DOMAIN calls : calls[i].op = "authorize" /\ calls[i].bound # "" }

\* C16: the evaluator of an entity policy is invoked only where its name was
\* requested and the entity resolved from the context is the entity the
\* policy is bound to; of two entity policies of one name, the one bound to
\* another entity than the resolved one is compared but never invoked.
EntityPolicyMatchesItsEntity ==
    /\ \A i \in EntityCalls :
          /\ calls[i].policy \in RequestedAt(calls[i])
          /\ calls[i].bound = calls[i].entity
          /\ \E j \in 1..(i - 1) : calls[j] = [calls[i] EXCEPT !.op = "equals"]
    /\ \A i \in Resolutions({"route", "read", "write"}) :
          calls[i].policy \in RequestedAt(calls[i])

\* C16, reached: a request passed the route guard by the policy bound to the
\* shop, after the policy of the same name bound to the product, whose
\* evaluator throws, was compared and left out
NamesakeOfOtherEntityLeftOut ==
    /\ pc = "handler"
    /\ \E i \in Resolutions({"route"}) :
          calls[i].bound = "Product" /\ calls[i].entity = "Shop"
    /\ \E i \in EntityCalls : calls[i].bound = "Shop" /\ calls[i].access = "route"
    /\ \E p \in DOMAIN authPolicies :
          authPolicies[p].name = "ShopAdmin" /\ authPolicies[p].authorizer = "throws"

(***************************************************************************)
(* Properties of the policy registry                                       *)
(***************************************************************************)
\* The conflict relation in cases: custom with custom, entity with custom
\* (either way round), entity with entity
ConflictByCases(policy, other) ==
    CASE ~IsEntityPolicy(policy) /\ ~IsEntityPolicy(other) -> policy.name = other.name
      [] IsEntityPolicy(policy) /\ IsEntityPolicy(other) ->
            policy.name = other.name /\ policy.entity = other.entity
      [] OTHER -> policy.name = other.name

\* C13: two custom policies of one name conflict; an entity policy and a
\* custom policy of one name conflict, whichever of the two is asked; two
\* entity policies of one name conflict only if bound to the same entity.
ConflictRelation ==
    \A a, b \in DOMAIN authPolicies :
        PolicyConflict(authPolicies[a], authPolicies[b])
            <=> ConflictByCases(authPolicies[a], authPolicies[b])

\* C13, reached: an application started with two entity policies of one
\* name bound to different entities
SameNameOtherEntityAccepted ==
    /\ pc = "idle"
    /\ \E a, b \in DOMAIN authPolicies :
          /\ IsEntityPolicy(authPolicies[a]) /\ IsEntityPolicy(authPolicies[b])
          /\ authPolicies[a].name = authPolicies[b].name
          /\ authPolicies[a].entity # authPolicies[b].entity

(***************************************************************************)
(* Properties of the order of the steps                                    *)
(***************************************************************************)
\* The invocations of one access mode
CallsOf(access) == { c \in DOMAIN calls : calls[c].access = access }

\* One step of a request with authorization enabled keeps the order: the
\* route check starts the request, the parameter check follows a route check
\* that passed, the action follows a parameter check that passed, the filter
\* follows the action; a check that threw is followed by no step of the
\* request but the authorizers of the route check still suspended; policies
\* of an access are invoked in the step of that access
StepInOrder ==
    config.enableAuthorization =>
        /\ pc = "idle" => pc' = "route"
        /\ pc = "route" => /\ pc' \in {"route", "parameters", "failed"}
                           /\ pc' = "parameters" => error' = NoError
        /\ pc = "parameters" => /\ pc' \in {"handler", "failed"}
                                /\ pc' = "handler" => error' = NoError
        /\ pc = "handler" => pc' = "response"
        /\ pc = "response" => pc' \in {"done", "failed"}
        /\ pc \in {"done", "failed"} => pc' \in {pc, "idle"} /\ result' \in {result, NoResult}
        /\ result' # result /\ result' # NoResult => pc = "handler"
        /\ CallsOf("route")' # CallsOf("route") /\ pc' # "idle"
              => pc \in {"idle", "route", "failed"} /\ result = NoResult
        /\ CallsOf("write")' # CallsOf("write") /\ pc' # "idle" => pc = "parameters"
        /\ CallsOf("read")' # CallsOf("read") /\ pc' # "idle" => pc = "response"
        /\ pc' = "failed" /\ pc = "route" => CallsOf("write")' = {} /\ result' = NoResult
        /\ pc' = "failed" /\ pc = "parameters" => result' = NoResult

\* C21: with authorization enabled every step of every request keeps the
\* order route check, parameter-write check, action, response filter; the
\* action is not invoked after a route check or a parameter-write check that
\* threw, and no write policy is evaluated after a route check that threw.
StepsInOrder == [][StepInOrder]_vars

\* C21, reached: a request went through the four steps, with a policy of
\* each access invoked
FourStepsDone ==
    /\ pc = "done"
    /\ config.enableAuthorization
    /\ \E r \in CallsOf("route"), w \in CallsOf("write"), f \in CallsOf("read") :
          r < w /\ w < f

(***************************************************************************)
(* Properties of interleaved evaluations                                   *)
(***************************************************************************)
\* The authorizers of the route check have all returned, none by throwing
RouteAuthorizersReturned ==
    /\ config.enableAuthorization
    /\ tasks # <<>>
    /\ \A t \in DOMAIN tasks : tasks[t].status \in {"true", "false"}

\* C22: each of the authorizers a route check starts together, resumed in any
\* order, returns what it returns alone: true exactly if the identity
\* satisfies a registered policy of one of its names (no registered policy of
\* those names being skipped).  Stated for names whose evaluators do not throw.
InterleavedAsAlone ==
    RouteAuthorizersReturned =>
        \A t \in DOMAIN tasks :
            ~Throwing(tasks[t].keys, ctx.user) =>
                (tasks[t].status = "true" <=> Satisfied(tasks[t].keys, ctx.user))

(***************************************************************************)
(* Properties of the registry under requests                               *)
(***************************************************************************)
\* C23: whatever requests were served, the array of policies the authorizers
\* evaluate holds the policies the application started with, in the order it
\* started with.
RegistryUnchangedByRequests == authPolicies = config.authPolicies

(***************************************************************************)
(* Properties of readonly members                                          *)
(***************************************************************************)
RECURSIVE ReadonlyPaths(_, _, _, _, _, _)

\* The paths of the non-null values supplied for members decorated
\* authorize.readonly(): all of them, or without those below a relation
\* property (~relations), or without those below a value whose own write
\* decorator denies the identity (~denied)
ReadonlyPaths(meta, value, path, user, relations, denied) ==
    IF IsNullish(value) THEN {}
    ELSE (IF AuthorizeReadonly \in Range(WriteNames(meta)) THEN {path} ELSE {})
         \cup
         IF ~denied /\ WriteNames(meta) # <<>> /\ ~Satisfied(WriteNames(meta), user) THEN {}
         ELSE IF ~relations /\ IsRelation(meta) THEN {}
         ELSE IF meta.type.array
         THEN UNION { ReadonlyPaths([meta EXCEPT !.type = TypeOf(meta.type.name)],
                                    value.items[i], path \o "." \o ToString(i - 1),
                                    user, relations, denied) : i \in DOMAIN value.items }
         ELSE IF IsCustomClass(meta.type)
         THEN UNION { ReadonlyPaths(Reflect(meta.type.name)[i],
                                    Get(value, Reflect(meta.type.name)[i].name),
                                    path \o "." \o Reflect(meta.type.name)[i].name,
                                    user, relations, denied) :
                         i \in DOMAIN Reflect(meta.type.name) }
         ELSE {}

\* The same for the parameters of the request
RequestReadonlyPaths(relations, denied) ==
    UNION { ReadonlyPaths(ctx.route.action.parameters[i], ctx.parameters[i],
                          ctx.route.action.parameters[i].name, ctx.user, relations, denied) :
               i \in DOMAIN ctx.parameters }

\* The request was rejected with `path` among the unauthorized paths
RejectedWith(path) ==
    /\ ParametersDenied
    /\ error.message = ParameterMessage(RequestWalkPaths(FALSE))
    /\ path \in Range(RequestWalkPaths(FALSE))

NamesOfAccess(decorators, access) ==
    UNION { Range(d.policies) :
            d \in { e \in Range(decorators) :
                      e.type = "plumier-meta:authorize" /\ e.access = access } }

\* The decorators of the parameter or property a location names
DecoratorsAt(location) ==
    UNION ( { Range(m.decorators) :
              m \in { n \in Range(ctx.route.action.parameters) :
                        location = "parameter " \o ctx.route.controller.name \o "." \o n.name } }
            \cup
            { Range(q.decorators) :
              q \in UNION { { r \in Range(Reflect(class)) :
                                location = "property " \o class \o "." \o r.name } :
                            class \in {"Animal", "Tag", "Shop", "Product"} } } )

\* The names for the route check: of the route-scoped decorators of the
\* method and the class, and of the global default
RouteNamesOf(route) ==
    NamesOfAccess(route.action.decorators, "route")
        \cup NamesOfAccess(route.controller.decorators, "route")
        \cup Range(config.globalAuthorizations)

\* C25: every policy a step of a request evaluates is named by a decorator of
\* the access of that step: the route check evaluates names of route-scoped
\* decorators only, the parameter-write check, at a parameter or property,
\* names of its write-scoped decorators only, the response filter, at a
\* property, names of its read-scoped decorators only.
AccessModesIndependent ==
    \A c \in DOMAIN calls :
        /\ calls[c].access = "route" => calls[c].policy \in RouteNamesOf(ctx.route)
        /\ calls[c].access \in {"write", "read"} =>
              \E d \in DecoratorsAt(calls[c].location) :
                  /\ d.type = "plumier-meta:authorize"
                  /\ d.access = calls[c].access
                  /\ calls[c].policy \in Range(d.policies)

\* C25, reached: the admin set the parameter guarded for writing and read
\* the label of the returned tag, whose write-scoped policy throws, on an
\* action whose only decorator is write-scoped
ModesServedApart ==
    /\ pc = "done"
    /\ NamesOfAccess(ctx.route.action.decorators, "write") # {}
    /\ \E c \in CallsOf("write") : calls[c].location = "parameter AnimalController.id"
    /\ \E c \in CallsOf("read") : calls[c].location = "property Tag.label"
    /\ response.body = Tag(Scalar, Scalar)

(***************************************************************************)
(* Properties of the policy builders                                       *)
(***************************************************************************)
\* The array after one policy more, the earlier entries as they were
PushedOne(before, after) ==
    /\ Len(after) = Len(before) + 1
    /\ SubSeq(after, 1, Len(before)) = before

\* C26: define on either builder returns a policy of the id given and
\* leaves globalPolicies as it was; register on either builder appends one
\* policy of the id given at the end of globalPolicies, leaves the earlier
\* entries as they were and returns the builder.
BuilderStep ==
    /\ \A id \in BuilderIds, authorizer \in {"roleEquals", "throwsValue"} :
          /\ DefinePolicy(id, authorizer) =>
                /\ globalPolicies' = globalPolicies
                /\ result'.class = "CustomAuthPolicy" /\ result'.name = id
          /\ RegisterPolicy(id, authorizer) =>
                /\ PushedOne(globalPolicies, globalPolicies')
                /\ globalPolicies'[Len(globalPolicies')].class = "CustomAuthPolicy"
                /\ globalPolicies'[Len(globalPolicies')].name = id
                /\ result' = AuthPolicyBuilder
    /\ \A entity \in {"Shop", "Sheep"}, id \in BuilderIds :
          /\ DefineEntityPolicy(entity, id, "ownsId") =>
                /\ globalPolicies' = globalPolicies
                /\ result'.class = "EntityAuthPolicy" /\ result'.name = id
                /\ result'.entity = entity
          /\ RegisterEntityPolicy(entity, id, "ownsId") =>
                /\ PushedOne(globalPolicies, globalPolicies')
                /\ globalPolicies'[Len(globalPolicies')].class = "EntityAuthPolicy"
                /\ globalPolicies'[Len(globalPolicies')].name = id
                /\ globalPolicies'[Len(globalPolicies')].entity = entity
                /\ result' = EntityPolicyBuilder(entity)

BuildersDefineAndRegister == [][BuilderStep]_vars

\* C26, reached: two policies were registered, a custom one and then an
\* entity policy, and a policy defined afterwards is in no entry
DefinedAfterTwoRegistered ==
    /\ pc = "load"
    /\ globalPolicies = << Define("Tomato", "roleEquals"),
                           DefineEntity("Shop", "Tomato", "ownsId") >>
    /\ result = DefineEntity("Shop", "Mango", "ownsId")

(***************************************************************************)
(* Properties of the order of evaluation                                   *)
(***************************************************************************)
\* Where the application registered the policy of a name
RegisteredAt(name) ==
    CHOOSE i \in DOMAIN config.authPolicies : config.authPolicies[i].name = name

\* The evaluator of a call of the route check returned true
AllowedAt(c) ==
    PolicyAuthorize(config.authPolicies[RegisteredAt(calls[c].policy)],
                    AuthContext(ctx.user, "route", Undefined, "", NoMetadata)) = "true"

\* C27: the evaluators one authorizer invokes run from the last registered
\* to the first registered, on the first request of the application and on
\* every later one, and none runs after one that returned true.
ReverseRegistrationOrder ==
    (Len(tasks) = 1 /\ pc \in {"route", "parameters", "handler", "failed"}) =>
        \A i, j \in { c \in CallsOf("route") : calls[c].op = "authorize" } :
            i < j => /\ RegisteredAt(calls[i].policy) > RegisteredAt(calls[j].policy)
                     /\ ~AllowedAt(i)

(***************************************************************************)
(* Properties of repeated requests                                         *)
(***************************************************************************)
RECURSIVE FirstRun(_, _, _, _)

\* What one authorizer does over the policies in the order given, nothing
\* else running: the evaluators it invokes and how it ends
FirstRun(policies, keys, user, names) ==
    IF policies = <<>> THEN [status |-> "false", names |-> names]
    ELSE IF Head(policies).name \notin Range(keys)
    THEN FirstRun(Tail(policies), keys, user, names)
    ELSE LET returned == PolicyAuthorize(Head(policies),
                             AuthContext(user, "route", Undefined, "", NoMetadata))
         IN  IF returned = "false"
             THEN FirstRun(Tail(policies), keys, user, Append(names, Head(policies).name))
             ELSE [status |-> IF returned = "true" THEN "true" ELSE "error",
                   names |-> Append(names, Head(policies).name)]

\* The evaluators the route check of the request has invoked, in order
RouteCallNames ==
    [ c \in 1..Len(calls) |-> calls[c].policy ]

\* C28: a request with one route authorizer, served after any number of
\* earlier requests, ends as the same request ends on the application just
\* started, having invoked the same evaluators in the same order.
RepeatedRequestSame ==
    (Len(tasks) = 1 /\ tasks[1].status # "await" /\ pc \in {"route", "failed"}
         /\ CallsOf("write") = {}) =>
        LET first == FirstRun(ReverseSeq(config.authPolicies), tasks[1].keys, ctx.user, <<>>)
        IN  /\ tasks[1].status = first.status
            /\ RouteCallNames = first.names

(***************************************************************************)
(* Properties of the responses left as they are                            *)
(***************************************************************************)
\* The response is one responseAuthorize may filter: status 200, a truthy
\* body, a response type known and other than Promise
MayBeFiltered ==
    /\ result.status = 200
    /\ result.body \notin {Undefined, Null, Num(0)}
    /\ ResponseType(ctx.route.action) \notin {NoType, TypeOf("Promise")}

\* C29: a response of another status, of a falsy body or of no known type
\* or of type Promise is returned as the action returned it, and no read
\* policy is evaluated for it.
OnlyOkTypedBodiesFiltered ==
    (pc = "done" /\ ~MayBeFiltered) =>
        /\ response = result
        /\ CallsOf("read") = {}

\* C29, reached: a tag returned with status 201 keeps the label an
\* anonymous caller may not read
CreatedTagKeepsGuardedLabel ==
    /\ pc = "done"
    /\ ctx.user = Undefined
    /\ ResponseType(ctx.route.action) = TypeOf("Tag")
    /\ result.status = 201
    /\ response.body = Tag(Scalar, Scalar)

(***************************************************************************)
(* Properties of relation properties                                       *)
(***************************************************************************)
\* The request supplied an animal whose owner, a relation, is set and whose
\* tag and kids are not
OwnerSupplied ==
    /\ Len(ctx.parameters) = 2
    /\ ctx.parameters[2] \notin {Undefined, Null}
    /\ ~IsNullish(Get(ctx.parameters[2], "owner"))
    /\ IsNullish(Get(ctx.parameters[2], "tag"))
    /\ IsNullish(Get(ctx.parameters[2], "kids"))

\* The paths of the values supplied outside the owner that the admin policy
\* guards: the parameter id and the id of the animal
GuardedBesideOwner ==
    (IF IsNullish(ctx.parameters[1]) THEN <<>> ELSE << "id" >>)
        \o (IF IsNullish(Get(ctx.parameters[2], "id")) THEN <<>> ELSE << "data.id" >>)

\* C30: the walk evaluates the write policy of the relation property owner
\* on the value supplied, evaluates no policy of a property of the owner's
\* class, and records data.owner, and no path below it, exactly if the
\* policy denies.
RelationCheckedNotEntered ==
    (WalkEnded /\ OwnerSupplied) =>
        /\ \E c \in CallsOf("write") :
              /\ calls[c].location = "property Animal.owner"
              /\ calls[c].policy = "admin"
              /\ calls[c].value = Get(ctx.parameters[2], "owner")
        /\ \A c \in CallsOf("write") :
              calls[c].location \notin {"property Tag.id", "property Tag.label"}
        /\ IF Satisfied(<<"admin">>, ctx.user)
           THEN Recorded(<<>>)
           ELSE Recorded(GuardedBesideOwner \o << "data.owner" >>)

\* C30, reached: a user who is no admin set the owner with an id, which
\* nobody may set, and data.owner alone was recorded
OwnerDeniedIdBelowUnseen ==
    /\ ParametersDenied
    /\ ctx.user = UserOf("user")
    /\ ctx.parameters = << Undefined, Animal(Undefined, Undefined, Tag(Scalar, Undefined), Undefined) >>
    /\ error.message = ParameterMessage(<< "data.owner" >>)
    /\ WriteCallLocations = { "property Animal.owner" }

====
